---------------------------- MODULE Spec2Model ----------------------------
(***************************************************************************)
(* A model of the scoring-and-classification core of the Fake Productivity *)
(* Detector backend: ProductivityScorer (services/scoring.py),             *)
(* SuggestionEngine (services/suggestions.py), MLClassifier                *)
(* (services/ml_model.py) and DataPreprocessor (services/preprocessing.py).*)
(*                                                                         *)
(* Real numbers are fixed-point integers in thousandths: 6.5 hours is      *)
(* 6500, a score of 79.996 is 79996.  Counts (break_frequency,             *)
(* tasks_completed, max_suggestions) are plain integers.                   *)
(***************************************************************************)
EXTENDS Integers, Sequences, FiniteSets, TLC

VARIABLES
    sc_args,        \* scorer: arguments of the current calculate_score call
    sc_result,      \* scorer: the ScoringResult returned, or None before the call
    sc_prev,        \* scorer: <<arguments and result>> of the preceding call, or <<>>
    sc_pc,          \* scorer: "idle" before the call returns, "returned" after
    sg_rules,       \* suggestion engine: self.rules
    sg_args,        \* suggestion engine: arguments of generate_suggestions
    sg_out,         \* suggestion engine: <<locals and result of the last call>>, or <<>>
    sg_returned,    \* suggestion engine: the lists returned so far for sg_args
    cl_model,           \* classifier: self.model
    cl_model_type,      \* classifier: self.model_type
    cl_is_trained,      \* classifier: self.is_trained
    cl_training_accuracy, \* classifier: self.training_accuracy
    cl_train_returned,  \* classifier: a train call on this instance has returned
    pp_scaler,          \* preprocessor: self.scaler
    pp_is_fitted,       \* preprocessor: self.is_fitted
    fs_model,           \* the file at model_path
    fs_scaler,          \* the file at scaler_path
    ml_last,            \* the last classifier or preprocessor call and how it ended
    ml_object,          \* the object this run's calls go to: "classifier" or "preprocessor"
    tr_pc,          \* training script: "start", "loaded" (data in hand) or "done"
    tr_data,        \* training script: the data frame main holds
    tr_scored,      \* training script: the arguments of its calculate_score calls
    tr_call,        \* training script: the function main called and its model_type
    tr_fit,         \* training script: the matrix its fit received and its column order
    tr_saved,       \* training script: the file written under model_dir
    tr_error,       \* training script: the error that ended it, or "none"
    inf_last,       \* inference: <<the last direct call and what it produced>>, or <<>>
    rq,             \* request handlers: the state of each coroutine in flight
    cd_frame,       \* clean_data: the batch handed to it
    cd_out,         \* clean_data: <<its frames and its result>>, or <<>> before the call
    db_table,       \* database: the rows of the productivity_analysis table, in insert order
    db_memory,      \* database: _in_memory_history, per user, newest first
    db_clock,       \* database: the clock that stamps created_at and numbers the ids
    db_live,        \* database: per user, the ids created since the last delete_user_history call
    db_last,        \* database: the last call and what it returned
    sn_instance,     \* singletons: the module global of each accessor (0: None)
    sn_made,         \* singletons: how many instances each accessor has constructed
    sn_received,     \* singletons: the instances each accessor has returned to callers
    sn_thread,       \* singletons: where each request thread is in its accessor call
    sn_calls         \* singletons: how many accessor calls each thread has made

scorerVars == <<sc_args, sc_result, sc_prev, sc_pc>>

suggestVars == <<sg_rules, sg_args, sg_out, sg_returned>>

classifierVars ==
    <<cl_model, cl_model_type, cl_is_trained, cl_training_accuracy, cl_train_returned>>

preprocessorVars == <<pp_scaler, pp_is_fitted>>

mlVars ==
    <<classifierVars, preprocessorVars, fs_model, fs_scaler, ml_last, ml_object>>

trainingVars ==
    <<tr_pc, tr_data, tr_scored, tr_call, tr_fit, tr_saved, tr_error>>

inferenceVars == <<inf_last>>

requestVars == <<rq>>

cleaningVars == <<cd_frame, cd_out>>

databaseVars == <<db_table, db_memory, db_clock, db_live, db_last>>

singletonVars == <<sn_instance, sn_made, sn_received, sn_thread, sn_calls>>

vars ==
    <<scorerVars, suggestVars, mlVars, trainingVars, inferenceVars,
      requestVars, cleaningVars, databaseVars, singletonVars>>

\* What the actions of one component leave alone: the other components.
notScorerVars ==
    <<suggestVars, mlVars, trainingVars, inferenceVars, requestVars,
      cleaningVars, databaseVars, singletonVars>>

notSuggestVars ==
    <<scorerVars, mlVars, trainingVars, inferenceVars, requestVars,
      cleaningVars, databaseVars, singletonVars>>

notMlVars ==
    <<scorerVars, suggestVars, trainingVars, inferenceVars, requestVars,
      cleaningVars, databaseVars, singletonVars>>

notTrainingVars ==
    <<scorerVars, suggestVars, inferenceVars, requestVars, cleaningVars,
      databaseVars, singletonVars>>

notInferenceVars ==
    <<scorerVars, suggestVars, trainingVars, requestVars, cleaningVars,
      databaseVars, singletonVars>>

notRequestVars ==
    <<scorerVars, suggestVars, trainingVars, inferenceVars, cleaningVars,
      databaseVars, singletonVars>>

notCleaningVars ==
    <<scorerVars, suggestVars, mlVars, trainingVars, inferenceVars,
      requestVars, databaseVars, singletonVars>>

notDatabaseVars ==
    <<scorerVars, suggestVars, mlVars, trainingVars, inferenceVars,
      requestVars, cleaningVars, singletonVars>>

notSingletonVars ==
    <<scorerVars, suggestVars, mlVars, trainingVars, inferenceVars,
      requestVars, cleaningVars, databaseVars>>

None == "None"

\* One unit of a real number: three decimal digits.
Scale == 10 * 10 * 10

Max(a, b) == IF a >= b THEN a ELSE b

Min(a, b) == IF a <= b THEN a ELSE b

(***************************************************************************)
(* config.py                                                               *)
(***************************************************************************)
TASK_WEIGHT == 8

IDLE_WEIGHT == 6

SOCIAL_MEDIA_WEIGHT == 7

BREAK_WEIGHT == 2

TASKS_COMPLETED_WEIGHT == 5

MIN_SCORE == 0

MAX_SCORE == 100

HIGHLY_PRODUCTIVE_MIN == 80

MODERATELY_PRODUCTIVE_MIN == 50

HIGHLY_PRODUCTIVE == "Highly Productive"

MODERATELY_PRODUCTIVE == "Moderately Productive"

FAKE_PRODUCTIVITY == "Fake Productivity"

(***************************************************************************)
(* services/scoring.py                                                     *)
(***************************************************************************)

\* Python's round(x, 2) on a value in thousandths: the nearest hundredth, an
\* exact tie going to the even hundredth.  The result is again in thousandths.
Round2(x) ==
    LET q == x \div 10
        r == x % 10
    IN  IF r < 5 THEN q * 10
        ELSE IF r > 5 THEN (q + 1) * 10
        ELSE IF q % 2 = 0 THEN q * 10 ELSE (q + 1) * 10

\* RawScore with the weights of idle time and social media exchanged.
RawScoreWeightsSwapped(task_hours, idle_hours, social_media_hours, break_frequency, tasks_completed) ==
    task_hours * TASK_WEIGHT + tasks_completed * Scale * TASKS_COMPLETED_WEIGHT
        - idle_hours * SOCIAL_MEDIA_WEIGHT - social_media_hours * IDLE_WEIGHT
        - break_frequency * Scale * BREAK_WEIGHT

\* RawScore with the break penalty added instead of subtracted.
RawScoreBreakSign(task_hours, idle_hours, social_media_hours, break_frequency, tasks_completed) ==
    task_hours * TASK_WEIGHT + tasks_completed * Scale * TASKS_COMPLETED_WEIGHT
        - idle_hours * IDLE_WEIGHT - social_media_hours * SOCIAL_MEDIA_WEIGHT
        + break_frequency * Scale * BREAK_WEIGHT

\* raw_score of calculate_score: hours are in thousandths, counts are integers.
RawScore(task_hours, idle_hours, social_media_hours, break_frequency, tasks_completed) ==
    LET task_contribution == task_hours * TASK_WEIGHT
        tasks_completed_contribution == tasks_completed * Scale * TASKS_COMPLETED_WEIGHT
        idle_penalty == idle_hours * IDLE_WEIGHT
        social_media_penalty == social_media_hours * SOCIAL_MEDIA_WEIGHT
        break_penalty == break_frequency * Scale * BREAK_WEIGHT
    IN  task_contribution + tasks_completed_contribution
            - idle_penalty - social_media_penalty - break_penalty

\* _normalize_score without the clamp.
NormalizeScoreNoClamp(raw_score) == raw_score

NormalizeScore(raw_score) ==
    Max(MIN_SCORE * Scale, Min(MAX_SCORE * Scale, raw_score))

ClassifyCategory(score) ==
    IF score >= HIGHLY_PRODUCTIVE_MIN * Scale THEN HIGHLY_PRODUCTIVE
    ELSE IF score >= MODERATELY_PRODUCTIVE_MIN * Scale THEN MODERATELY_PRODUCTIVE
    ELSE FAKE_PRODUCTIVITY

\* The ScoringResult of calculate_score.  The category is classified from the
\* normalized score before it is rounded; score and raw_score are rounded.
calculate_score(task_hours, idle_hours, social_media_hours, break_frequency, tasks_completed) ==
    LET raw_score == RawScore(task_hours, idle_hours, social_media_hours,
                              break_frequency, tasks_completed)
        normalized_score == NormalizeScore(raw_score)
        category == ClassifyCategory(normalized_score)
        breakdown ==
            [productive |-> Round2(task_hours),
             idle |-> Round2(idle_hours),
             social |-> Round2(social_media_hours),
             breaks |-> Round2((break_frequency * Scale) \div 2),
             task_contribution |-> Round2(task_hours * TASK_WEIGHT),
             tasks_completed_contribution |->
                 Round2(tasks_completed * Scale * TASKS_COMPLETED_WEIGHT),
             idle_penalty |-> Round2(-(idle_hours * IDLE_WEIGHT)),
             social_media_penalty |-> Round2(-(social_media_hours * SOCIAL_MEDIA_WEIGHT)),
             break_penalty |-> Round2(-(break_frequency * Scale * BREAK_WEIGHT))]
    IN  [score |-> Round2(normalized_score),
         category |-> category,
         breakdown |-> breakdown,
         raw_score |-> Round2(raw_score)]

(***************************************************************************)
(* The inputs of the scorer: finite numbers, in and out of the declared    *)
(* ranges, with two and with three decimals.                               *)
(***************************************************************************)
TaskHoursVals == {-1000, 0, 6500, 10000, 10001, 12500, 30000}

IdleHoursVals == {0, 2, 1500, 8000}

SocialMediaVals == {0, 2000, 6000}

BreakFrequencyVals == {0, 5, 12}

TasksCompletedVals == {-1, 0, 8, 30}

ScorerArgs ==
    [task_hours : TaskHoursVals, idle_hours : IdleHoursVals,
     social_media_hours : SocialMediaVals, break_frequency : BreakFrequencyVals,
     tasks_completed : TasksCompletedVals]

ScoreOf(a) ==
    calculate_score(a.task_hours, a.idle_hours, a.social_media_hours,
                    a.break_frequency, a.tasks_completed)

\* One call of ProductivityScorer.calculate_score.
CalculateScore ==
    /\ sc_pc = "idle"
    /\ sc_result' = ScoreOf(sc_args)
    /\ sc_pc' = "returned"
    /\ UNCHANGED <<sc_args, sc_prev>>
    /\ UNCHANGED notScorerVars

ScorerFields ==
    {"task_hours", "idle_hours", "social_media_hours", "break_frequency",
     "tasks_completed"}

ScorerFieldVals(f) ==
    CASE f = "task_hours" -> TaskHoursVals
      [] f = "idle_hours" -> IdleHoursVals
      [] f = "social_media_hours" -> SocialMediaVals
      [] f = "break_frequency" -> BreakFrequencyVals
      [] f = "tasks_completed" -> TasksCompletedVals

\* The next request: the same metrics with one of them changed.
NextScoreRequest ==
    /\ sc_pc = "returned"
    /\ \E f \in ScorerFields :
         \E v \in ScorerFieldVals(f) \ {sc_args[f]} :
            sc_args' = [sc_args EXCEPT ![f] = v]
    /\ sc_prev' = <<[args |-> sc_args, result |-> sc_result]>>
    /\ sc_result' = None
    /\ sc_pc' = "idle"
    /\ UNCHANGED notScorerVars

ScorerNext == CalculateScore \/ NextScoreRequest


(***************************************************************************)
(* Claims about ProductivityScorer, checked under SpecScorer.              *)
(***************************************************************************)
CategoryLabels == {FAKE_PRODUCTIVITY, MODERATELY_PRODUCTIVE, HIGHLY_PRODUCTIVE}

\* The declared ranges of the five metrics (preprocessing.py, clip_values).
InDeclaredRange(a) ==
    /\ a.task_hours >= 0 /\ a.task_hours <= 24 * Scale
    /\ a.idle_hours >= 0 /\ a.idle_hours <= 24 * Scale
    /\ a.social_media_hours >= 0 /\ a.social_media_hours <= 24 * Scale
    /\ a.break_frequency >= 0 /\ a.break_frequency <= 50
    /\ a.tasks_completed >= 0 /\ a.tasks_completed <= 100

\* C1: every returned score lies in [0, 100] and every returned category is
\* one of the three labels, for any finite inputs, in range or not.
C1_ScoreBounded ==
    sc_pc = "returned" =>
        /\ sc_result.score >= 0
        /\ sc_result.score <= 100 * Scale
        /\ sc_result.category \in CategoryLabels

\* C1 witness: an out-of-range input whose raw score exceeds 100 was scored.
C1_Witness ==
    /\ sc_pc = "returned"
    /\ sc_args.task_hours = 30000
    /\ sc_result.raw_score > 100 * Scale
    /\ sc_result.score = 100 * Scale

\* C2 (as claimed): the returned category is the band that contains the
\* returned two-decimal score: >= 80 Highly, >= 50 Moderately, else Fake.
C2_CategoryMatchesReturnedScore ==
    sc_pc = "returned" =>
        sc_result.category =
            IF sc_result.score >= 80 * Scale THEN HIGHLY_PRODUCTIVE
            ELSE IF sc_result.score >= 50 * Scale THEN MODERATELY_PRODUCTIVE
            ELSE FAKE_PRODUCTIVITY

\* C3: the returned raw score is 8*task_hours + 5*tasks_completed
\* - 6*idle_hours - 7*social_media_hours - 2*break_frequency (to two
\* decimals), the score is that value clamped to [0, 100], and the two worked
\* examples give (59, 59.0, Moderately) and (-114, 0.0, Fake).
C3_Formula ==
    sc_pc = "returned" =>
        LET a == sc_args
            raw == 8 * a.task_hours + 5000 * a.tasks_completed
                   - 6 * a.idle_hours - 7 * a.social_media_hours
                   - 2000 * a.break_frequency
            clamped == IF raw < 0 THEN 0 ELSE IF raw > 100000 THEN 100000 ELSE raw
        IN  /\ sc_result.raw_score = Round2(raw)
            /\ sc_result.score = Round2(clamped)
            /\ (a = [task_hours |-> 6500, idle_hours |-> 1500,
                     social_media_hours |-> 2000, break_frequency |-> 5,
                     tasks_completed |-> 8])
                 => /\ sc_result.raw_score = 59000
                    /\ sc_result.score = 59000
                    /\ sc_result.category = MODERATELY_PRODUCTIVE
            /\ (a = [task_hours |-> 0, idle_hours |-> 8000,
                     social_media_hours |-> 6000, break_frequency |-> 12,
                     tasks_completed |-> 0])
                 => /\ sc_result.raw_score = -114000
                    /\ sc_result.score = 0
                    /\ sc_result.category = FAKE_PRODUCTIVITY

\* C3 witness: the second worked example has been scored.
C3_Witness ==
    /\ sc_pc = "returned"
    /\ sc_args = [task_hours |-> 0, idle_hours |-> 8000,
                  social_media_hours |-> 6000, break_frequency |-> 12,
                  tasks_completed |-> 0]
    /\ sc_result.raw_score = -114000

\* Two argument records that agree everywhere but on field f.
DifferOnlyIn(a, b, f) == \A g \in ScorerFields \ {f} : a[g] = b[g]

\* C4: between two calls that differ in one metric only, both within the
\* declared ranges, the score does not decrease when task_hours or
\* tasks_completed grows and does not increase when idle_hours,
\* social_media_hours or break_frequency grows.
C4_Monotone ==
    (sc_pc = "returned" /\ Len(sc_prev) = 1
        /\ InDeclaredRange(sc_args) /\ InDeclaredRange(sc_prev[1].args)) =>
        /\ \A f \in {"task_hours", "tasks_completed"} :
              (DifferOnlyIn(sc_prev[1].args, sc_args, f) /\ sc_prev[1].args[f] <= sc_args[f])
                  => sc_prev[1].result.score <= sc_result.score
        /\ \A f \in {"idle_hours", "social_media_hours", "break_frequency"} :
              (DifferOnlyIn(sc_prev[1].args, sc_args, f) /\ sc_prev[1].args[f] <= sc_args[f])
                  => sc_prev[1].result.score >= sc_result.score

\* C4 witness: two in-range calls that differ in break_frequency only, the
\* second with more breaks and a strictly lower score.
C4_Witness ==
    /\ sc_pc = "returned" /\ Len(sc_prev) = 1
    /\ InDeclaredRange(sc_args) /\ InDeclaredRange(sc_prev[1].args)
    /\ DifferOnlyIn(sc_prev[1].args, sc_args, "break_frequency")
    /\ sc_prev[1].args.break_frequency < sc_args.break_frequency
    /\ sc_prev[1].result.score > sc_result.score


(***************************************************************************)
(* services/suggestions.py                                                 *)
(***************************************************************************)

\* _create_rules: the rule list in declaration order.  Thresholds are in
\* thousandths, like every metric value the rules are compared with.
CreateRules ==
  <<
    [condition |-> "idle_hours", threshold |-> 2000, comparison |-> "gt",
     suggestion |-> "Your idle time is quite high. Try using focus techniques like the Pomodoro method to maintain consistent productivity throughout the day.",
     priority |-> 1, category |-> "focus"],
    [condition |-> "idle_hours", threshold |-> 1000, comparison |-> "gt",
     suggestion |-> "Consider minimizing idle time with better task planning. Break large tasks into smaller, manageable chunks.",
     priority |-> 2, category |-> "focus"],
    [condition |-> "social_media_usage", threshold |-> 3000, comparison |-> "gt",
     suggestion |-> "Your social media usage is significantly impacting productivity. Consider using app blockers like Freedom, Cold Turkey, or built-in screen time limits.",
     priority |-> 1, category |-> "distraction"],
    [condition |-> "social_media_usage", threshold |-> 2000, comparison |-> "gt",
     suggestion |-> "Reduce social media usage to improve focus. Try scheduling specific times for social media instead of checking continuously.",
     priority |-> 2, category |-> "distraction"],
    [condition |-> "social_media_usage", threshold |-> 1500, comparison |-> "gt",
     suggestion |-> "Consider using website blockers during work hours to minimize social media distractions.",
     priority |-> 3, category |-> "distraction"],
    [condition |-> "break_frequency", threshold |-> 10000, comparison |-> "gt",
     suggestion |-> "Too many breaks can disrupt your workflow. Try the Pomodoro technique: 25 minutes work, 5 minutes break.",
     priority |-> 1, category |-> "breaks"],
    [condition |-> "break_frequency", threshold |-> 8000, comparison |-> "gt",
     suggestion |-> "Consolidate your breaks to maintain workflow momentum. Longer, less frequent breaks are more effective than many short ones.",
     priority |-> 2, category |-> "breaks"],
    [condition |-> "break_frequency", threshold |-> 2000, comparison |-> "lt",
     suggestion |-> "Taking regular breaks actually improves productivity. Consider adding short breaks every 45-60 minutes.",
     priority |-> 3, category |-> "breaks"],
    [condition |-> "task_hours", threshold |-> 4000, comparison |-> "lt",
     suggestion |-> "Increase focused work hours for better productivity. Start with time-blocking specific tasks in your calendar.",
     priority |-> 2, category |-> "focus"],
    [condition |-> "task_hours", threshold |-> 2000, comparison |-> "lt",
     suggestion |-> "Your productive hours are very low. Try identifying your peak productivity hours and scheduling important tasks during those times.",
     priority |-> 1, category |-> "focus"],
    [condition |-> "tasks_completed", threshold |-> 3000, comparison |-> "lt",
     suggestion |-> "Set clear, achievable task goals for each day. Try breaking larger projects into smaller, completable tasks.",
     priority |-> 2, category |-> "planning"],
    [condition |-> "tasks_completed", threshold |-> 5000, comparison |-> "lt",
     suggestion |-> "Consider using a task management system like Todoist, Trello, or simple to-do lists to track and complete more tasks.",
     priority |-> 3, category |-> "planning"],
    [condition |-> "efficiency_ratio", threshold |-> 500, comparison |-> "lt",
     suggestion |-> "You're spending time on tasks but completion rate is low. Focus on finishing tasks before starting new ones.",
     priority |-> 2, category |-> "efficiency"],
    [condition |-> "score", threshold |-> 80000, comparison |-> "gte",
     suggestion |-> "Excellent work! Maintain your current productivity habits. Consider sharing your strategies with peers.",
     priority |-> 5, category |-> "positive"],
    [condition |-> "score", threshold |-> 90000, comparison |-> "gte",
     suggestion |-> "Outstanding productivity! You're in the top tier. Keep up the great work!",
     priority |-> 5, category |-> "positive"]
  >>

\* efficiency_ratio of generate_suggestions, in thousandths rounded down.  The
\* only rule that reads it compares it with 0.5 by "lt", and for an integer
\* bound n, floor(x) < n exactly when x < n, so the rounding changes no
\* comparison.
EfficiencyRatio(task_hours, tasks_completed) ==
    IF task_hours > 0
        THEN (tasks_completed * Scale * Scale) \div Max(task_hours, 1 * Scale)
        ELSE 0

\* The metrics mapping of generate_suggestions, every value in thousandths.
Metrics(task_hours, idle_hours, social_media_usage, break_frequency, tasks_completed, score) ==
    [idle_hours |-> idle_hours,
     social_media_usage |-> social_media_usage,
     break_frequency |-> break_frequency * Scale,
     task_hours |-> task_hours,
     tasks_completed |-> tasks_completed * Scale,
     efficiency_ratio |-> EfficiencyRatio(task_hours, tasks_completed),
     score |-> score]

\* _check_rule
CheckRule(rule, metrics) ==
    IF rule.condition \notin DOMAIN metrics THEN FALSE
    ELSE LET value == metrics[rule.condition]
             threshold == rule.threshold
         IN  CASE rule.comparison = "gt" -> value > threshold
               [] rule.comparison = "lt" -> value < threshold
               [] rule.comparison = "gte" -> value >= threshold
               [] rule.comparison = "lte" -> value <= threshold
               [] rule.comparison = "eq" -> value = threshold
               [] OTHER -> FALSE

\* The loop over self.rules: the (priority, category, suggestion) triples of
\* the rules that fire, in declaration order.
RECURSIVE TriggeredFrom(_, _, _)
TriggeredFrom(rules, i, metrics) ==
    IF i > Len(rules) THEN <<>>
    ELSE LET rest == TriggeredFrom(rules, i + 1, metrics)
             rule == rules[i]
         IN  IF CheckRule(rule, metrics)
                 THEN <<[priority |-> rule.priority, category |-> rule.category,
                         suggestion |-> rule.suggestion]>> \o rest
                 ELSE rest

MinPriority(triples) ==
    CHOOSE p \in {triples[i].priority : i \in DOMAIN triples} :
        \A i \in DOMAIN triples : p <= triples[i].priority

RECURSIVE Reverse(_)
Reverse(s) == IF s = <<>> THEN <<>> ELSE Reverse(Tail(s)) \o <<Head(s)>>

\* A sort by priority that puts equal priorities in reverse order.
RECURSIVE SortByPriorityUnstable(_)
SortByPriorityUnstable(triples) ==
    IF triples = <<>> THEN <<>>
    ELSE LET p == MinPriority(triples)
             IsMin(t) == t.priority = p
             NotMin(t) == t.priority # p
         IN  Reverse(SelectSeq(triples, IsMin))
                 \o SortByPriorityUnstable(SelectSeq(triples, NotMin))

\* list.sort(key=lambda x: x[0]): ascending priority, and stable, so triples
\* of equal priority keep the order they had.
RECURSIVE SortByPriority(_)
SortByPriority(triples) ==
    IF triples = <<>> THEN <<>>
    ELSE LET p == MinPriority(triples)
             IsMin(t) == t.priority = p
             NotMin(t) == t.priority # p
         IN  SelectSeq(triples, IsMin) \o SortByPriority(SelectSeq(triples, NotMin))

\* The deduplication loop without its category test: every triple is kept.
KeepAll(triples, i, seen_categories) ==
    [j \in 1..(Len(triples) - i + 1) |-> triples[i + j - 1].suggestion]

\* The deduplication loop from position i on: a suggestion is kept when its
\* category has not been seen or is "positive".
RECURSIVE UniqueFrom(_, _, _)
UniqueFrom(triples, i, seen_categories) ==
    IF i > Len(triples) THEN <<>>
    ELSE LET t == triples[i]
             rest == UniqueFrom(triples, i + 1, seen_categories \cup {t.category})
         IN  IF t.category \notin seen_categories \/ t.category = "positive"
                 THEN <<t.suggestion>> \o rest
                 ELSE rest

\* _get_default_suggestions with the middle band starting above 50 instead
\* of at 50.
GetDefaultSuggestionsAbove(score) ==
    IF score >= 80 * Scale THEN
        <<"Excellent work! Maintain your current productivity habits.",
          "Consider mentoring others with your productivity strategies.",
          "Challenge yourself with more ambitious goals.">>
    ELSE IF score > 50 * Scale THEN
        <<"Good progress! Focus on consistency to improve further.",
          "Try identifying your peak productivity hours.",
          "Set specific goals for each work session.">>
    ELSE
        <<"Start with small improvements - even 10% better is progress.",
          "Identify your biggest time wasters and address them first.",
          "Consider using productivity apps to track your time.",
          "Set realistic daily goals and celebrate small wins.">>

\* _get_default_suggestions
GetDefaultSuggestions(score) ==
    IF score >= 80 * Scale THEN
        <<"Excellent work! Maintain your current productivity habits.",
          "Consider mentoring others with your productivity strategies.",
          "Challenge yourself with more ambitious goals.">>
    ELSE IF score >= 50 * Scale THEN
        <<"Good progress! Focus on consistency to improve further.",
          "Try identifying your peak productivity hours.",
          "Set specific goals for each work session.">>
    ELSE
        <<"Start with small improvements - even 10% better is progress.",
          "Identify your biggest time wasters and address them first.",
          "Consider using productivity apps to track your time.",
          "Set realistic daily goals and celebrate small wins.">>

\* The Python slice list[:n]: the first n elements for n >= 0, and all but the
\* last -n elements for n < 0.
SliceTo(list, n) ==
    IF n >= 0 THEN SubSeq(list, 1, Min(n, Len(list)))
    ELSE SubSeq(list, 1, Max(Len(list) + n, 0))

\* generate_suggestions.  Besides the returned list the record holds the
\* function's locals, which the properties below refer to.
generate_suggestions(rules, task_hours, idle_hours, social_media_usage, break_frequency, tasks_completed, score, max_suggestions) ==
    LET metrics == Metrics(task_hours, idle_hours, social_media_usage,
                           break_frequency, tasks_completed, score)
        fired == TriggeredFrom(rules, 1, metrics)
        triggered_suggestions == SortByPriority(fired)
        deduplicated == UniqueFrom(triggered_suggestions, 1, {})
        unique_suggestions ==
            IF deduplicated = <<>> THEN GetDefaultSuggestions(score)
            ELSE deduplicated
    IN  [efficiency_ratio |-> metrics.efficiency_ratio,
         triggered_suggestions |-> triggered_suggestions,
         unique_suggestions |-> unique_suggestions,
         result |-> SliceTo(unique_suggestions, max_suggestions)]

(***************************************************************************)
(* The inputs of the suggestion engine.                                    *)
(***************************************************************************)
SgTaskHoursVals == {-1000, 0, 3000, 6000, 12000}

SgIdleHoursVals == {500, 1500, 2500}

SgSocialMediaVals == {1000, 1800, 2500, 3500}

SgBreakFrequencyVals == {1, 5, 9, 11}

SgTasksCompletedVals == {0, 4, 5, 8}

SgScoreVals == {30000, 50000, 80000, 95000}

\* max_suggestions ranges over -MaxNegativeLimit .. MaxLimit.
MaxNegativeLimit == 2

MaxLimit == 6

\* How many times the engine is called with the same arguments.
MaxCalls == 2

SuggestionArgs ==
    [task_hours : SgTaskHoursVals, idle_hours : SgIdleHoursVals,
     social_media_usage : SgSocialMediaVals,
     break_frequency : SgBreakFrequencyVals,
     tasks_completed : SgTasksCompletedVals, score : SgScoreVals,
     max_suggestions : (0 - MaxNegativeLimit)..MaxLimit]

SuggestionsOf(rules, a) ==
    generate_suggestions(rules, a.task_hours, a.idle_hours, a.social_media_usage,
                         a.break_frequency, a.tasks_completed, a.score,
                         a.max_suggestions)

\* One call of SuggestionEngine.generate_suggestions.
GenerateSuggestions ==
    /\ Len(sg_returned) < MaxCalls
    /\ LET out == SuggestionsOf(sg_rules, sg_args)
       IN  /\ sg_out' = <<out>>
           /\ sg_returned' = Append(sg_returned, out.result)
    /\ UNCHANGED <<sg_rules, sg_args>>
    /\ UNCHANGED notSuggestVars

SuggestNext == GenerateSuggestions

(***************************************************************************)
(* Claims about SuggestionEngine, checked under SpecSuggest.               *)
(***************************************************************************)
SgCalled == Len(sg_out) = 1

\* The rule a suggestion text belongs to, by its position in the rule list.
RuleIndexOf(text) ==
    CHOOSE i \in DOMAIN sg_rules : sg_rules[i].suggestion = text

PriorityOfText(text) == sg_rules[RuleIndexOf(text)].priority

CategoryOfText(text) == sg_rules[RuleIndexOf(text)].category

\* The rules that fired in the last call.
FiredRules ==
    {RuleIndexOf(sg_out[1].triggered_suggestions[k].suggestion) :
        k \in DOMAIN sg_out[1].triggered_suggestions}

\* Rule i comes before rule j in priority order: a smaller priority number,
\* or the same one and declared earlier.
Precedes(i, j) ==
    \/ sg_rules[i].priority < sg_rules[j].priority
    \/ sg_rules[i].priority = sg_rules[j].priority /\ i < j

DeduplicatedTags == {"focus", "distraction", "breaks", "planning", "efficiency"}

\* C5: when at least one rule fires, the returned list holds at most one
\* suggestion of each of the tags focus, distraction, breaks, planning and
\* efficiency, and it is that of the fired rule first in priority order;
\* every fired "positive" rule is kept by the deduplication.
C5_OnePerCategory ==
    (SgCalled /\ FiredRules # {}) =>
        LET res == sg_out[1].result
            kept == sg_out[1].unique_suggestions
        IN  /\ \A c \in DeduplicatedTags :
                  LET at == {k \in DOMAIN res : CategoryOfText(res[k]) = c}
                  IN  /\ Cardinality(at) <= 1
                      /\ \A k \in at :
                            \A j \in FiredRules :
                                sg_rules[j].category = c =>
                                    \/ j = RuleIndexOf(res[k])
                                    \/ Precedes(RuleIndexOf(res[k]), j)
            /\ \A j \in FiredRules :
                  sg_rules[j].category = "positive" =>
                      \E k \in DOMAIN kept : kept[k] = sg_rules[j].suggestion

\* C5 witness: three "focus" rules fired and one is returned, next to two
\* "positive" suggestions.
C5_Witness ==
    /\ SgCalled
    /\ Cardinality({j \in FiredRules : sg_rules[j].category = "focus"}) >= 2
    /\ Cardinality({k \in DOMAIN sg_out[1].result :
                       CategoryOfText(sg_out[1].result[k]) = "focus"}) = 1
    /\ Cardinality({k \in DOMAIN sg_out[1].result :
                       CategoryOfText(sg_out[1].result[k]) = "positive"}) = 2

\* C6 (as claimed): the returned list never has more than max_suggestions
\* entries, whatever integer max_suggestions is.
C6_AtMostMaxSuggestions ==
    SgCalled => Len(sg_out[1].result) <= sg_args.max_suggestions

\* C7: the firing rules' texts are returned in ascending priority, rules of
\* equal priority in declaration order, and a repeated call with the same
\* arguments returns the same list.
C7_PriorityOrder ==
    (SgCalled /\ FiredRules # {}) =>
        LET res == sg_out[1].result
            sorted == sg_out[1].triggered_suggestions
        IN  /\ \A i, j \in DOMAIN res :
                  i < j => Precedes(RuleIndexOf(res[i]), RuleIndexOf(res[j]))
            /\ \A i, j \in DOMAIN sorted :
                  i < j => Precedes(RuleIndexOf(sorted[i].suggestion),
                                    RuleIndexOf(sorted[j].suggestion))
            /\ \A i, j \in DOMAIN sg_returned : sg_returned[i] = sg_returned[j]

\* C7 witness: after two calls, a returned list in which two rules of equal
\* priority are followed by one of a larger priority number.
C7_Witness ==
    /\ Len(sg_returned) = 2
    /\ FiredRules # {}
    /\ Len(sg_out[1].result) >= 3
    /\ PriorityOfText(sg_out[1].result[1]) = PriorityOfText(sg_out[1].result[2])
    /\ PriorityOfText(sg_out[1].result[2]) < PriorityOfText(sg_out[1].result[3])

EfficiencyRuleText ==
    "You're spending time on tasks but completion rate is low. Focus on finishing tasks before starting new ones."

\* C8 (as claimed): efficiency_ratio is tasks_completed / max(task_hours, 1)
\* for every input, task_hours <= 0 counting as 1, and the efficiency rule
\* fires exactly when that value is below 0.5.
C8_EfficiencyRatio ==
    SgCalled =>
        LET claimed == (sg_args.tasks_completed * Scale * Scale)
                           \div Max(sg_args.task_hours, 1 * Scale)
        IN  /\ sg_out[1].efficiency_ratio = claimed
            /\ (RuleIndexOf(EfficiencyRuleText) \in FiredRules) <=> (2 * claimed < Scale)

\* The three default lists, each taken at a score inside its band.
HighBandDefaults == GetDefaultSuggestions(90 * Scale)
MidBandDefaults == GetDefaultSuggestions(60 * Scale)
LowBandDefaults == GetDefaultSuggestions(20 * Scale)

DefaultLists == {HighBandDefaults, MidBandDefaults, LowBandDefaults}

DefaultTexts ==
    UNION {{list[k] : k \in DOMAIN list} : list \in DefaultLists}

IsPrefixOf(s, list) ==
    /\ Len(s) <= Len(list)
    /\ \A k \in DOMAIN s : s[k] = list[k]

\* C21: the default suggestions are used exactly when no rule fires; the
\* returned list is then the start of the list of the score's band (score >=
\* 80, else score >= 50, else the low band), as long as max_suggestions allows
\* for a max_suggestions >= 0; and when a rule fires no default text is
\* returned.
C21_DefaultsIffNoRuleFires ==
    SgCalled =>
        LET res == sg_out[1].result
            band == IF sg_args.score >= 80 * Scale THEN HighBandDefaults
                    ELSE IF sg_args.score >= 50 * Scale THEN MidBandDefaults
                    ELSE LowBandDefaults
        IN  /\ (sg_out[1].unique_suggestions \in DefaultLists) <=> (FiredRules = {})
            /\ FiredRules = {} =>
                  /\ sg_out[1].unique_suggestions = band
                  /\ IsPrefixOf(res, band)
                  /\ sg_args.max_suggestions >= 0 =>
                        Len(res) = Min(sg_args.max_suggestions, Len(band))
            /\ FiredRules # {} => \A k \in DOMAIN res : res[k] \notin DefaultTexts

\* C21 witness: no rule fired at a score of exactly 50 and the first two
\* texts of the middle band's list were returned.
C21_Witness ==
    /\ SgCalled
    /\ FiredRules = {}
    /\ sg_args.score = 50 * Scale
    /\ sg_args.max_suggestions = 2
    /\ sg_out[1].result = SubSeq(MidBandDefaults, 1, 2)

\* The default list `list` is returned whole by some call of
\* generate_suggestions with arguments drawn from SuggestionArgs.
ReturnedForSomeInput(list) ==
    \E a \in SuggestionArgs :
        /\ GetDefaultSuggestions(a.score) = list
        /\ SuggestionsOf(sg_rules, a).triggered_suggestions = <<>>
        /\ SuggestionsOf(sg_rules, a).result = list

\* C22 (as claimed): each of the three default lists is returned for at least
\* one input: for every band there are metrics and a score in that band for
\* which no rule fires.
C22_EveryDefaultListReturned ==
    \A list \in DefaultLists : ReturnedForSomeInput(list)

(***************************************************************************)
(* services/ml_model.py and services/preprocessing.py                      *)
(*                                                                         *)
(* A model object is [kind, fitted]: which estimator class it is and       *)
(* whether fit has completed on it.  A scaler object is [fitted].  An      *)
(* accuracy is one of the levels 0..MaxAccuracy, level 0 being 0.0.        *)
(*                                                                         *)
(* The classifier and the preprocessor are separate objects and no method  *)
(* modelled here writes a field of the other one, so a run directs its     *)
(* calls at one of them (ml_object) while the other stays as constructed.  *)
(***************************************************************************)

\* MLClassifier.SUPPORTED_MODELS, in the order its keys are iterated.
SUPPORTED_MODELS == <<"logistic_regression", "random_forest", "decision_tree">>

SupportedModelTypes == {SUPPORTED_MODELS[i] : i \in DOMAIN SUPPORTED_MODELS}

\* DataPreprocessor.FEATURE_COLUMNS
FEATURE_COLUMNS ==
    <<"task_hours", "idle_hours", "social_media_usage", "break_frequency",
      "tasks_completed">>

FeatureColumnSet == {FEATURE_COLUMNS[i] : i \in DOMAIN FEATURE_COLUMNS}

\* self.model = None
NoModel == [kind |-> "None", fitted |-> FALSE]

\* _create_model: a new estimator of the given class, not fitted.
CreateModel(model_type) == [kind |-> model_type, fitted |-> FALSE]

\* The estimator after model.fit has returned.
FittedModel(model_type) == [kind |-> model_type, fitted |-> TRUE]

\* StandardScaler(), and the scaler after a fit.
NewScaler == [fitted |-> FALSE]

FittedScaler == [fitted |-> TRUE]

\* The accuracy levels a test split can yield.
MaxAccuracy == 1

AccuracyLevels == 0..MaxAccuracy

\* An 'accuracy' entry of an artifact that is not a number (None, a string):
\* the format f"{self.training_accuracy:.2%}" of _try_load_model raises on it.
NonNumericAccuracy == 0 - 1

\* The state of a file: missing, unreadable, or holding a saved object.
MissingFile == [state |-> "missing"]

CorruptFile == [state |-> "corrupt"]

\* The artifact joblib.dump writes in save_model.  A model_type of "absent"
\* stands for an artifact without that key.
ModelArtifact(model, model_type, accuracy) ==
    [state |-> "ok", model |-> model, model_type |-> model_type,
     accuracy |-> accuracy]

ScalerArtifact(scaler) == [state |-> "ok", scaler |-> scaler]

\* The fields of a classifier instance, as one record.
Classifier(model, model_type, is_trained, training_accuracy) ==
    [model |-> model, model_type |-> model_type, is_trained |-> is_trained,
     training_accuracy |-> training_accuracy]

CurrentClassifier ==
    Classifier(cl_model, cl_model_type, cl_is_trained, cl_training_accuracy)

CurrentPreprocessor == [scaler |-> pp_scaler, is_fitted |-> pp_is_fitted]

\* _try_load_model that keeps the model_type of the constructor and the
\* accuracy of __init__ instead of reading them from the artifact.
TryLoadModelOnlyModel(model_type, file) ==
    IF file.state = "ok"
        THEN Classifier(file.model, model_type, TRUE, 0)
        ELSE Classifier(NoModel, model_type, FALSE, 0)

\* MLClassifier.__init__ with _try_load_model: the fields after construction
\* with the given model_type argument and the given file at model_path.
\* Every failure of the load is caught and leaves the fields of __init__.
TryLoadModel(model_type, file) ==
    IF file.state = "ok"
        THEN Classifier(file.model,
                        IF file.model_type = "absent" THEN "unknown"
                        ELSE file.model_type,
                        TRUE, file.accuracy)
        ELSE Classifier(NoModel, model_type, FALSE, 0)

\* What _try_load_model returns: True when every statement of its try block
\* has run.  The last one, the log line, formats the accuracy after the four
\* fields have been assigned; an exception there is caught like any other.
TryLoadModelReturns(file) ==
    /\ file.state = "ok"
    /\ file.accuracy # NonNumericAccuracy

\* What _try_load_scaler returns.
TryLoadScalerReturns(file) == file.state = "ok"

\* DataPreprocessor.__init__ with _try_load_scaler.
TryLoadScaler(file) ==
    IF file.state = "ok"
        THEN [scaler |-> file.scaler, is_fitted |-> TRUE]
        ELSE [scaler |-> NewScaler, is_fitted |-> FALSE]

\* train without the assignment is_trained = True.
TrainForgetsFlag(c, fail, accuracy) ==
    IF fail = "split" \/ c.model_type \notin SupportedModelTypes
        THEN [c |-> c, error |-> "ValueError"]
    ELSE IF fail = "fit"
        THEN [c |-> [c EXCEPT !.model = CreateModel(c.model_type)],
              error |-> "ValueError"]
    ELSE [c |-> [c EXCEPT !.model = FittedModel(c.model_type),
                          !.training_accuracy = accuracy],
          error |-> IF fail = "report" THEN "ValueError" ELSE "none"]

\* MLClassifier.train.  fail names the statement that raises, if any:
\* "split" (train_test_split), "fit" (self.model.fit) or "report"
\* (classification_report, after the flags are set); _create_model raises for
\* a model_type that is not supported.  The result is the instance's fields
\* after the call and the error raised ("none" when the call returns).
Train(c, fail, accuracy) ==
    IF fail = "split"
        THEN [c |-> c, error |-> "ValueError"]
    ELSE IF c.model_type \notin SupportedModelTypes
        THEN [c |-> c, error |-> "ValueError: Unsupported model type"]
    ELSE IF fail = "fit"
        THEN [c |-> [c EXCEPT !.model = CreateModel(c.model_type)],
              error |-> "ValueError"]
    ELSE [c |-> Classifier(FittedModel(c.model_type), c.model_type, TRUE, accuracy),
          error |-> IF fail = "report" THEN "ValueError" ELSE "none"]

\* The loop of train_and_compare from variant i on.  accuracies[i] is the
\* test accuracy of variant i; fail_at is the iteration in which fit,
\* cross_val_score or classification_report raises (0: none).  best is
\* [accuracy, model_type, model]: the locals best_accuracy and
\* best_model_type, and self.model.
RECURSIVE CompareFrom(_, _, _, _)
CompareFrom(i, accuracies, fail_at, best) ==
    IF i > Len(SUPPORTED_MODELS) THEN [best |-> best, raised |-> FALSE]
    ELSE IF i = fail_at THEN [best |-> best, raised |-> TRUE]
    ELSE IF accuracies[i] > best.accuracy
        THEN CompareFrom(i + 1, accuracies, fail_at,
                         [accuracy |-> accuracies[i],
                          model_type |-> SUPPORTED_MODELS[i],
                          model |-> FittedModel(SUPPORTED_MODELS[i])])
        ELSE CompareFrom(i + 1, accuracies, fail_at, best)

\* MLClassifier.train_and_compare.  split_fails: train_test_split raises.
TrainAndCompare(c, split_fails, accuracies, fail_at) ==
    IF split_fails THEN [c |-> c, error |-> "ValueError"]
    ELSE LET loop == CompareFrom(1, accuracies, fail_at,
                                 [accuracy |-> 0, model_type |-> "None",
                                  model |-> c.model])
         IN  IF loop.raised
                 THEN [c |-> [c EXCEPT !.model = loop.best.model],
                       error |-> "ValueError"]
                 ELSE [c |-> Classifier(loop.best.model, loop.best.model_type,
                                        TRUE, loop.best.accuracy),
                       error |-> "none"]

\* MLClassifier.predict: the error it raises, or "none".  input_ok: X has
\* the shape the estimator was fitted on.
Predict(c, input_ok) ==
    IF ~c.is_trained \/ c.model = NoModel
        THEN "ValueError: Model not trained"
    ELSE IF ~c.model.fitted THEN "NotFittedError"
    ELSE IF ~input_ok THEN "ValueError"
    ELSE "none"

\* save_model without its readiness test.
SaveModelUnguarded(c, file) ==
    [file |-> ModelArtifact(c.model, c.model_type, c.training_accuracy),
     error |-> "none"]

\* MLClassifier.save_model to model_path: the file afterwards and the error.
SaveModel(c, file) ==
    IF ~c.is_trained \/ c.model = NoModel
        THEN [file |-> file, error |-> "ValueError: No trained model to save"]
        ELSE [file |-> ModelArtifact(c.model, c.model_type, c.training_accuracy),
              error |-> "none"]

\* DataPreprocessor.fit_transform(df, fit).  columns: the columns of df.
\* data_ok: the scaler accepts the values; when it does not, the scaler's fit
\* raises, and resets tells whether it had already discarded its statistics.
FitTransform(p, columns, fit, data_ok, resets) ==
    IF \E i \in DOMAIN FEATURE_COLUMNS : FEATURE_COLUMNS[i] \notin columns
        THEN [p |-> p, error |-> "ValueError: Missing required column"]
    ELSE IF fit
        THEN IF data_ok
                 THEN [p |-> [scaler |-> FittedScaler, is_fitted |-> TRUE],
                       error |-> "none"]
                 ELSE [p |-> [p EXCEPT !.scaler =
                                  IF resets THEN NewScaler ELSE p.scaler],
                       error |-> "ValueError"]
    ELSE IF ~p.is_fitted
        THEN [p |-> p, error |-> "ValueError: Scaler not fitted"]
    ELSE IF ~p.scaler.fitted THEN [p |-> p, error |-> "NotFittedError"]
    ELSE IF ~data_ok THEN [p |-> p, error |-> "ValueError"]
    ELSE [p |-> p, error |-> "none"]

\* DataPreprocessor.transform
Transform(p, columns, data_ok) == FitTransform(p, columns, FALSE, data_ok, FALSE)

(***************************************************************************)
(* The inputs of the classifier and the preprocessor.                      *)
(***************************************************************************)

\* The column sets of the data frames handed to fit_transform and transform:
\* the five feature columns, with and without the target column, and the
\* frames lacking one feature column.
DataColumnSets ==
    {FeatureColumnSet, FeatureColumnSet \cup {"productivity_category"}}
        \cup {FeatureColumnSet \ {c} : c \in FeatureColumnSet}

TrainFailures == {"none", "split", "fit", "report"}

\* The files found at model_path when the process starts: none, an
\* unreadable one, one written by save_model, one without a model_type key,
\* one whose accuracy entry is not a number.
InitialModelFiles ==
    {MissingFile, CorruptFile,
     ModelArtifact(FittedModel("random_forest"), "random_forest", MaxAccuracy),
     ModelArtifact(FittedModel("decision_tree"), "absent", 0),
     ModelArtifact(FittedModel("logistic_regression"), "logistic_regression",
                   NonNumericAccuracy)}

InitialScalerFiles ==
    {MissingFile, CorruptFile, ScalerArtifact(FittedScaler),
     ScalerArtifact(NewScaler)}

\* A record of a call: the operation, the error it raised ("none" when it
\* returned) and, for fit_transform and transform, the fit argument and
\* whether the data frame had all five feature columns.
Call(op, error) == [op |-> op, error |-> error, fit |-> FALSE, all_columns |-> TRUE]

CallOnData(op, error, fit, columns) ==
    [op |-> op, error |-> error, fit |-> fit,
     all_columns |-> (FeatureColumnSet \subseteq columns)]

NoCall == Call("none", "none")

SetClassifier(c) ==
    /\ cl_model' = c.model
    /\ cl_model_type' = c.model_type
    /\ cl_is_trained' = c.is_trained
    /\ cl_training_accuracy' = c.training_accuracy

SetPreprocessor(p) ==
    /\ pp_scaler' = p.scaler
    /\ pp_is_fitted' = p.is_fitted

\* A new process: get_preprocessor() and MLClassifier(model_type) are
\* constructed and load what the files hold.
Construct ==
    /\ \E model_type \in IF ml_object = "classifier" THEN SupportedModelTypes
                          ELSE {"random_forest"} :
          SetClassifier(TryLoadModel(model_type, fs_model))
    /\ SetPreprocessor(TryLoadScaler(fs_scaler))
    /\ cl_train_returned' = FALSE
    /\ ml_last' = Call("__init__", "none")
    /\ UNCHANGED <<fs_model, fs_scaler, ml_object>>
    /\ UNCHANGED notMlVars

DoTrain ==
    /\ ml_object = "classifier"
    /\ \E fail \in TrainFailures, accuracy \in AccuracyLevels :
          LET r == Train(CurrentClassifier, fail, accuracy)
          IN  /\ SetClassifier(r.c)
              /\ cl_train_returned' = (cl_train_returned \/ r.error = "none")
              /\ ml_last' = Call("train", r.error)
    /\ UNCHANGED <<preprocessorVars, fs_model, fs_scaler, ml_object>>
    /\ UNCHANGED notMlVars

DoTrainAndCompare ==
    /\ ml_object = "classifier"
    /\ \E fail_at \in 0..Len(SUPPORTED_MODELS),
          accuracies \in [DOMAIN SUPPORTED_MODELS -> AccuracyLevels] :
       \E split_fails \in IF fail_at = 0 THEN BOOLEAN ELSE {FALSE} :
          LET r == TrainAndCompare(CurrentClassifier, split_fails, accuracies, fail_at)
          IN  /\ SetClassifier(r.c)
              /\ ml_last' = Call("train_and_compare", r.error)
    /\ UNCHANGED <<cl_train_returned, preprocessorVars, fs_model, fs_scaler, ml_object>>
    /\ UNCHANGED notMlVars

DoPredict ==
    /\ ml_object = "classifier"
    /\ \E input_ok \in BOOLEAN :
          ml_last' = Call("predict", Predict(CurrentClassifier, input_ok))
    /\ UNCHANGED <<classifierVars, preprocessorVars, fs_model, fs_scaler, ml_object>>
    /\ UNCHANGED notMlVars

DoSaveModel ==
    /\ ml_object = "classifier"
    /\ LET r == SaveModel(CurrentClassifier, fs_model)
       IN  /\ fs_model' = r.file
           /\ ml_last' = Call("save_model", r.error)
    /\ UNCHANGED <<classifierVars, preprocessorVars, fs_scaler, ml_object>>
    /\ UNCHANGED notMlVars

\* DataPreprocessor.save_scaler: joblib.dump of self.scaler, fitted or not.
DoSaveScaler ==
    /\ ml_object = "preprocessor"
    /\ fs_scaler' = ScalerArtifact(pp_scaler)
    /\ ml_last' = Call("save_scaler", "none")
    /\ UNCHANGED <<classifierVars, preprocessorVars, fs_model, ml_object>>
    /\ UNCHANGED notMlVars

DoFitTransform ==
    /\ ml_object = "preprocessor"
    /\ \E columns \in DataColumnSets, fit \in BOOLEAN, data_ok \in BOOLEAN :
       \E resets \in IF fit /\ ~data_ok THEN BOOLEAN ELSE {FALSE} :
          LET r == FitTransform(CurrentPreprocessor, columns, fit, data_ok, resets)
          IN  /\ SetPreprocessor(r.p)
              /\ ml_last' = CallOnData("fit_transform", r.error, fit, columns)
    /\ UNCHANGED <<classifierVars, fs_model, fs_scaler, ml_object>>
    /\ UNCHANGED notMlVars

DoTransform ==
    /\ ml_object = "preprocessor"
    /\ \E columns \in DataColumnSets, data_ok \in BOOLEAN :
          LET r == Transform(CurrentPreprocessor, columns, data_ok)
          IN  /\ SetPreprocessor(r.p)
              /\ ml_last' = CallOnData("transform", r.error, FALSE, columns)
    /\ UNCHANGED <<classifierVars, fs_model, fs_scaler, ml_object>>
    /\ UNCHANGED notMlVars

MlNext ==
    \/ Construct
    \/ DoTrain
    \/ DoTrainAndCompare
    \/ DoPredict
    \/ DoSaveModel
    \/ DoSaveScaler
    \/ DoFitTransform
    \/ DoTransform


(***************************************************************************)
(* Claims about MLClassifier and DataPreprocessor, checked under SpecML.   *)
(***************************************************************************)

\* C9: predict raises when the instance is untrained, and it does not raise
\* the not-trained error once a train call on the instance has returned.
\* (predict changes no field, so the fields after the call are those it saw.)
C9_PredictReadiness ==
    ml_last.op = "predict" =>
        /\ ~cl_is_trained => ml_last.error = "ValueError: Model not trained"
        /\ cl_train_returned => ml_last.error # "ValueError: Model not trained"

\* C9 witness: predict returned on an instance whose train call had returned.
C9_Witness ==
    /\ ml_last.op = "predict"
    /\ cl_train_returned
    /\ ml_last.error = "none"

\* Everything a failed call must leave alone: the fields of both objects and
\* both files.
ReadinessState ==
    <<cl_model, cl_model_type, cl_is_trained, cl_training_accuracy,
      pp_scaler, pp_is_fitted, fs_model, fs_scaler>>

\* C10: a call that needs a ready component and finds it unready raises and
\* changes nothing: save_model on an untrained classifier (no artifact is
\* written), transform or fit_transform(fit=False) on an unfitted
\* preprocessor, and fit_transform or transform on a data frame lacking one of
\* the five feature columns.
C10_UnreadyCallsChangeNothing ==
    [][ /\ (ml_last'.op = "save_model" /\ (~cl_is_trained \/ cl_model = NoModel))
              => (ml_last'.error # "none" /\ UNCHANGED ReadinessState)
        /\ (ml_last'.op \in {"transform", "fit_transform"}
                /\ ~ml_last'.fit /\ ~pp_is_fitted)
              => (ml_last'.error # "none" /\ UNCHANGED ReadinessState)
        /\ (ml_last'.op \in {"transform", "fit_transform"} /\ ~ml_last'.all_columns)
              => (ml_last'.error # "none" /\ UNCHANGED ReadinessState)
      ]_vars

\* C10 witness: save_model has raised on an untrained classifier and there is
\* still no file at model_path.
C10_Witness ==
    /\ ml_last.op = "save_model"
    /\ ml_last.error = "ValueError: No trained model to save"
    /\ ~cl_is_trained
    /\ fs_model = MissingFile

\* C11 (as claimed): constructing MLClassifier or DataPreprocessor never
\* raises; when the load at construction fails the classifier has
\* is_trained = false (the preprocessor is_fitted = false), and when it
\* succeeds the classifier has is_trained = true with the model, the
\* model_type and the accuracy recorded in the artifact (the preprocessor
\* is_fitted = true with the saved scaler).
C11_BestEffortLoad ==
    ml_last.op = "__init__" =>
        /\ ml_last.error = "none"
        /\ ~TryLoadModelReturns(fs_model) => ~cl_is_trained
        /\ TryLoadModelReturns(fs_model) =>
              /\ cl_is_trained
              /\ cl_model = fs_model.model
              /\ fs_model.model_type # "absent" => cl_model_type = fs_model.model_type
              /\ cl_training_accuracy = fs_model.accuracy
        /\ ~TryLoadScalerReturns(fs_scaler) => ~pp_is_fitted
        /\ TryLoadScalerReturns(fs_scaler) =>
              (pp_is_fitted /\ pp_scaler = fs_scaler.scaler)

\* C20: when save_model has returned on a trained classifier c and a new
\* classifier is then constructed on that path, the new one has is_trained
\* true and c's model, model_type and accuracy, whatever model_type its
\* constructor was given, so predict answers as c's does; when save_scaler
\* has returned on a fitted preprocessor and a new preprocessor is then
\* constructed on that path, it holds the same scaler with is_fitted true,
\* so transform answers the same.
C20_SaveLoadRoundTrip ==
    [][/\ (/\ ml_last.op = "save_model" /\ ml_last.error = "none"
           /\ ml_last'.op = "__init__") =>
              /\ cl_is_trained'
              /\ cl_model' = cl_model
              /\ cl_model_type' = cl_model_type
              /\ cl_training_accuracy' = cl_training_accuracy
              /\ \A input_ok \in BOOLEAN :
                    Predict(CurrentClassifier, input_ok)' =
                        Predict(CurrentClassifier, input_ok)
       /\ (/\ ml_last.op = "save_scaler" /\ ml_last.error = "none"
           /\ pp_is_fitted /\ ml_last'.op = "__init__") =>
              /\ pp_is_fitted'
              /\ pp_scaler' = pp_scaler
              /\ \A columns \in DataColumnSets, data_ok \in BOOLEAN :
                    Transform(CurrentPreprocessor, columns, data_ok)' =
                        Transform(CurrentPreprocessor, columns, data_ok)]_vars

\* C20 is exercised: a classifier has been constructed from an artifact that
\* a save_model of this run wrote after training, one that none of the
\* initial files equals.
C20_Witness ==
    /\ ml_last.op = "__init__"
    /\ fs_model.state = "ok"
    /\ fs_model \notin InitialModelFiles
    /\ cl_is_trained
    /\ cl_model = fs_model.model

\* The variant with the highest accuracy in the triple, the first one in the
\* order of SUPPORTED_MODELS among equals.
FirstBest(accuracies) ==
    CHOOSE i \in DOMAIN SUPPORTED_MODELS :
        /\ \A j \in DOMAIN SUPPORTED_MODELS : accuracies[j] <= accuracies[i]
        /\ \A j \in 1..(i - 1) : accuracies[j] < accuracies[i]

\* C23 (as claimed): after train_and_compare returns, the model, model_type
\* and training_accuracy are those of the variant with the highest test
\* accuracy, the first one in iteration order among equals, for every triple
\* of accuracies, the triple of three zeros included.
C23_BestVariantSelected ==
    [][\A accuracies \in [DOMAIN SUPPORTED_MODELS -> AccuracyLevels] :
          (/\ ml_last'.op = "train_and_compare"
           /\ ml_last'.error = "none"
           /\ CurrentClassifier' =
                  TrainAndCompare(CurrentClassifier, FALSE, accuracies, 0).c)
              => /\ cl_model_type' = SUPPORTED_MODELS[FirstBest(accuracies)]
                 /\ cl_model' = FittedModel(SUPPORTED_MODELS[FirstBest(accuracies)])
                 /\ cl_training_accuracy' = accuracies[FirstBest(accuracies)]
      ]_vars

\* C27 (as claimed): in every reachable state, is_trained implies that model
\* is not None and that model_type is one of the three supported variants.
C27_TrainedHasModel ==
    cl_is_trained =>
        /\ cl_model # NoModel
        /\ cl_model_type \in SupportedModelTypes

\* C28 (as claimed): when train or train_and_compare raises, model,
\* model_type, training_accuracy and is_trained keep the values they had
\* before the call.
C28_FailedTrainChangesNothing ==
    [][(/\ ml_last'.op \in {"train", "train_and_compare"}
        /\ ml_last'.error # "none")
          => UNCHANGED <<cl_model, cl_model_type, cl_training_accuracy,
                         cl_is_trained>>]_vars

(***************************************************************************)
(* ml/train_model.py: the training script.                                 *)
(*                                                                         *)
(* A data frame is a sequence of rows; a row is a record from column names *)
(* to cells.  The cells of the frames read here are all numbers, so        *)
(* to_numeric and handle_missing_values leave them as they are.            *)
(***************************************************************************)

\* ranges of DataPreprocessor.clip_values (hours in thousandths).
ClipRanges ==
    [task_hours |-> <<0, 24 * Scale>>,
     idle_hours |-> <<0, 24 * Scale>>,
     social_media_usage |-> <<0, 24 * Scale>>,
     break_frequency |-> <<0, 50>>,
     tasks_completed |-> <<0, 100>>]

\* Series.clip(min_val, max_val) on one cell.
Clip(v, min_val, max_val) == Max(min_val, Min(max_val, v))

\* DataPreprocessor.clip_values on one row: the columns named in ranges that
\* the row has are clipped, every other column is left alone.
ClipValues(row) ==
    [col \in DOMAIN row |->
        IF col \in DOMAIN ClipRanges
            THEN Clip(row[col], ClipRanges[col][1], ClipRanges[col][2])
            ELSE row[col]]

\* column_mapping of DataPreprocessor.clean_data, in declaration order.
CleanColumnMapping ==
    << <<"task_hours", <<"task_hours", "taskhours", "productive_hours">> >>,
       <<"idle_hours", <<"idle_hours", "idlehours", "idle_time">> >>,
       <<"social_media_usage",
         <<"social_media_usage", "social_media_hours", "social_media", "socialmedia">> >>,
       <<"break_frequency",
         <<"break_frequency", "breakfrequency", "breaks", "break_count">> >>,
       <<"tasks_completed",
         <<"tasks_completed", "taskscompleted", "completed_tasks", "task_count">> >> >>

\* df.rename(columns={var: standard_name}) on one row.
RenameColumn(row, var, standard_name) ==
    [col \in (DOMAIN row \ {var}) \cup {standard_name} |->
        IF col = standard_name THEN row[var] ELSE row[col]]

\* The inner loop of clean_data for one standard name: the first variation
\* that is a column, while the standard name is not one, is renamed.
RECURSIVE RenameVariation(_, _, _, _)
RenameVariation(row, standard_name, variations, i) ==
    IF i > Len(variations) THEN row
    ELSE IF variations[i] \in DOMAIN row /\ standard_name \notin DOMAIN row
        THEN RenameColumn(row, variations[i], standard_name)
        ELSE RenameVariation(row, standard_name, variations, i + 1)

\* The outer loop of clean_data over column_mapping.
RECURSIVE StandardizeColumns(_, _)
StandardizeColumns(row, k) ==
    IF k > Len(CleanColumnMapping) THEN row
    ELSE StandardizeColumns(
             RenameVariation(row, CleanColumnMapping[k][1],
                             CleanColumnMapping[k][2], 1), k + 1)

\* df.drop_duplicates(): the first of every group of equal rows is kept.
RECURSIVE DropDuplicates(_, _)
DropDuplicates(df, i) ==
    IF i > Len(df) THEN <<>>
    ELSE IF \E j \in 1..(i - 1) : df[j] = df[i]
        THEN DropDuplicates(df, i + 1)
        ELSE <<df[i]>> \o DropDuplicates(df, i + 1)

\* DataPreprocessor.clean_data on a frame of numeric cells.
clean_data(df) ==
    DropDuplicates([i \in DOMAIN df |-> ClipValues(StandardizeColumns(df[i], 1))], 1)

\* required_cols of load_csv_data.
required_cols ==
    <<"task_hours", "tasks_completed", "idle_hours", "social_media_hours",
      "break_frequency">>

\* feature_cols of train_and_evaluate and of compare_models.
feature_cols ==
    <<"task_hours", "tasks_completed", "idle_hours", "social_media_usage",
      "break_frequency">>

\* The arguments of the scorer.calculate_score call that labels one row in
\* load_csv_data and in generate_synthetic_data: the cells of the row as read.
LabelArgs(row) ==
    [task_hours |-> row.task_hours,
     idle_hours |-> row.idle_hours,
     social_media_hours |-> row.social_media_hours,
     break_frequency |-> row.break_frequency,
     tasks_completed |-> row.tasks_completed]

\* One row with the two columns the labelling adds.
LabelRow(row) ==
    [col \in DOMAIN row \cup {"productivity_score", "category"} |->
        IF col = "productivity_score" THEN ScoreOf(LabelArgs(row)).score
        ELSE IF col = "category" THEN ScoreOf(LabelArgs(row)).category
        ELSE row[col]]

\* load_csv_data after read_csv: the frame returned, the arguments of its
\* calculate_score calls, and the error raised ("none" when it returns).
\* A frame that brings its own category column is not labelled.
load_csv_data(df) ==
    IF \E i \in DOMAIN required_cols : required_cols[i] \notin DOMAIN df[1]
        THEN [df |-> <<>>, scored |-> <<>>,
              error |-> "ValueError: Missing required columns"]
    ELSE IF "category" \in DOMAIN df[1]
        THEN [df |-> df, scored |-> <<>>, error |-> "none"]
    ELSE [df |-> [i \in DOMAIN df |-> LabelRow(df[i])],
          scored |-> [i \in DOMAIN df |-> LabelArgs(df[i])],
          error |-> "none"]

\* processed_df[feature_cols].values: one vector per row, in the order of cols.
FeatureMatrix(df, cols) ==
    [i \in DOMAIN df |-> [k \in DOMAIN cols |-> df[i][cols[k]]]]

\* What a fit receives: the matrix and the order of its columns.
NoFit == [columns |-> <<>>, X |-> <<>>]

\* Whether Train reaches self.model.fit: the split has passed and
\* _create_model has returned an estimator.
FitIsCalled(c, fail) ==
    fail # "split" /\ c.model_type \in SupportedModelTypes

\* What the script leaves behind: the classifier it constructed last (if it
\* got that far), what the fits received, the file written under model_dir
\* and the error raised ("none" when the function returns).
ScriptResult(constructed, c, fit, saved, error) ==
    [constructed |-> constructed, c |-> c, fit |-> fit, saved |-> saved,
     error |-> error]

\* train_and_evaluate(data, model_type) with the file found at
\* settings.model_path.  split_fails: the script's own train_test_split
\* raises; fail, accuracy: as in Train.
train_and_evaluate(data, model_type, file, split_fails, fail, accuracy) ==
    LET processed_df == clean_data(data)
        X == FeatureMatrix(processed_df, feature_cols)
        classifier == TryLoadModel(model_type, file)
        trained == Train(classifier, fail, accuracy)
        fit == IF FitIsCalled(classifier, fail)
                   THEN [columns |-> feature_cols, X |-> X] ELSE NoFit
        saved == SaveModel(trained.c, MissingFile)
    IN  IF split_fails
            THEN ScriptResult(FALSE, classifier, NoFit, MissingFile, "ValueError")
        ELSE IF trained.error # "none"
            THEN ScriptResult(TRUE, trained.c, fit, MissingFile, trained.error)
        ELSE ScriptResult(TRUE, trained.c, fit, saved.file, saved.error)

\* compare_models(data).  inner_split_fails: the train_test_split of
\* train_and_compare raises.  MLClassifier() runs train_and_compare; the loop
\* that follows iterates over the items of the dict train_and_compare
\* returned, whose first key is 'model_results': MLClassifier(model_type=
\* 'model_results') is trained and saved, and metrics['accuracy'] then
\* raises KeyError, the value under that key being keyed by model names.
compare_models(data, file, split_fails, inner_split_fails, accuracies, fail_at, fail, accuracy) ==
    LET processed_df == clean_data(data)
        X == FeatureMatrix(processed_df, feature_cols)
        fit == [columns |-> feature_cols, X |-> X]
        classifier == TryLoadModel("random_forest", file)
        comparison == TrainAndCompare(classifier, inner_split_fails, accuracies, fail_at)
        temp_classifier == TryLoadModel("model_results", file)
        trained == Train(temp_classifier, fail, accuracy)
        saved == SaveModel(trained.c, MissingFile)
    IN  IF split_fails
            THEN ScriptResult(FALSE, classifier, NoFit, MissingFile, "ValueError")
        ELSE IF comparison.error # "none"
            THEN ScriptResult(TRUE, comparison.c,
                              IF inner_split_fails THEN NoFit ELSE fit,
                              MissingFile, comparison.error)
        ELSE IF trained.error # "none"
            THEN ScriptResult(TRUE, trained.c, fit, MissingFile, trained.error)
        ELSE ScriptResult(TRUE, trained.c, fit, saved.file, "KeyError: 'accuracy'")

(***************************************************************************)
(* The inputs of the training script.                                      *)
(***************************************************************************)

\* Rows of a training CSV: the worked example of the scorer, a row whose
\* idle_hours lies outside its declared range, and an unproductive day.
CsvRows ==
    {[task_hours |-> 6500, tasks_completed |-> 8, idle_hours |-> 1500,
      social_media_hours |-> 2000, break_frequency |-> 5],
     [task_hours |-> 10000, tasks_completed |-> 30, idle_hours |-> 30000,
      social_media_hours |-> 0, break_frequency |-> 0],
     [task_hours |-> 0, tasks_completed |-> 0, idle_hours |-> 8000,
      social_media_hours |-> 6000, break_frequency |-> 12]}

\* The number of rows of a training frame.
MaxRows == 2

\* The frames read_csv hands to load_csv_data: rows with the required
\* columns, a frame that has a category column of its own, and a frame that
\* names the social media column social_media_usage.
CsvFrames ==
    UNION {[1..n -> CsvRows] : n \in 1..MaxRows}
      \cup {<<[task_hours |-> 6500, tasks_completed |-> 8, idle_hours |-> 1500,
               social_media_hours |-> 2000, break_frequency |-> 5,
               category |-> HIGHLY_PRODUCTIVE]>>,
            <<[task_hours |-> 6500, tasks_completed |-> 8, idle_hours |-> 1500,
               social_media_usage |-> 2000, break_frequency |-> 5]>>}

\* Frames of generate_synthetic_data with n_samples = 3: one row of each
\* profile, every cell drawn within the profile's limits, in the order the
\* shuffle leaves them.
SyntheticRows ==
    <<[task_hours |-> 8000, tasks_completed |-> 14, idle_hours |-> 500,
       social_media_hours |-> 1000, break_frequency |-> 1],
      [task_hours |-> 4500, tasks_completed |-> 5, idle_hours |-> 2500,
       social_media_hours |-> 2000, break_frequency |-> 4],
      [task_hours |-> 1000, tasks_completed |-> 1, idle_hours |-> 6000,
       social_media_hours |-> 4000, break_frequency |-> 11]>>

SyntheticFrames ==
    {[i \in 1..3 |-> SyntheticRows[p[i]]] :
        p \in {q \in [1..3 -> 1..3] : \A a, b \in 1..3 : a # b => q[a] # q[b]}}

\* The script function that has been called, its model_type, and whether it
\* got as far as constructing its classifier.
ScriptCall(entry, model_type, constructed) ==
    [entry |-> entry, model_type |-> model_type, constructed |-> constructed]

NoScriptCall == ScriptCall("none", "none", FALSE)

\* main with --data: load_csv_data reads and labels the file.
MainLoadCsvData ==
    /\ tr_pc = "start"
    /\ \E df \in CsvFrames :
          LET r == load_csv_data(df)
          IN  /\ tr_data' = r.df
              /\ tr_scored' = r.scored
              /\ tr_error' = r.error
              /\ tr_pc' = IF r.error = "none" THEN "loaded" ELSE "done"
    /\ UNCHANGED <<tr_call, tr_fit, tr_saved>>
    /\ UNCHANGED <<mlVars, notTrainingVars>>

\* main without --data: generate_synthetic_data draws and labels the rows.
MainGenerateSyntheticData ==
    /\ tr_pc = "start"
    /\ \E df \in SyntheticFrames :
          /\ tr_data' = [i \in DOMAIN df |-> LabelRow(df[i])]
          /\ tr_scored' = [i \in DOMAIN df |-> LabelArgs(df[i])]
    /\ tr_error' = "none"
    /\ tr_pc' = "loaded"
    /\ UNCHANGED <<tr_call, tr_fit, tr_saved>>
    /\ UNCHANGED <<mlVars, notTrainingVars>>

\* What a script function does to the state: its classifier replaces the
\* one at rest when the function got as far as constructing it.
SetScriptResult(r) ==
    /\ IF r.constructed THEN SetClassifier(r.c)
       ELSE UNCHANGED <<cl_model, cl_model_type, cl_is_trained, cl_training_accuracy>>
    /\ cl_train_returned' = (r.error \in {"none", "KeyError: 'accuracy'"})
    /\ tr_fit' = r.fit
    /\ tr_saved' = r.saved
    /\ tr_error' = r.error
    /\ tr_pc' = "done"

\* main without --compare: train_and_evaluate(data, args.model).
MainTrainAndEvaluate ==
    /\ tr_pc = "loaded"
    /\ \E model_type \in SupportedModelTypes, split_fails \in BOOLEAN,
          fail \in TrainFailures, accuracy \in AccuracyLevels :
          /\ SetScriptResult(train_and_evaluate(tr_data, model_type, fs_model,
                                                split_fails, fail, accuracy))
          /\ tr_call' = ScriptCall("train_and_evaluate", model_type, ~split_fails)
    /\ UNCHANGED <<tr_data, tr_scored>>
    /\ UNCHANGED <<preprocessorVars, fs_model, fs_scaler, ml_last, ml_object>>
    /\ UNCHANGED notTrainingVars

\* main with --compare: compare_models(data).
MainCompareModels ==
    /\ tr_pc = "loaded"
    /\ \E split_fails \in BOOLEAN, inner_split_fails \in BOOLEAN,
          fail_at \in 0..Len(SUPPORTED_MODELS),
          accuracies \in [DOMAIN SUPPORTED_MODELS -> AccuracyLevels],
          fail \in TrainFailures, accuracy \in AccuracyLevels :
          /\ SetScriptResult(compare_models(tr_data, fs_model, split_fails,
                                            inner_split_fails, accuracies,
                                            fail_at, fail, accuracy))
          /\ tr_call' = ScriptCall("compare_models", "random_forest", ~split_fails)
    /\ UNCHANGED <<tr_data, tr_scored>>
    /\ UNCHANGED <<preprocessorVars, fs_model, fs_scaler, ml_last, ml_object>>
    /\ UNCHANGED notTrainingVars

TrainingNext ==
    \/ MainLoadCsvData
    \/ MainGenerateSyntheticData
    \/ MainTrainAndEvaluate
    \/ MainCompareModels

(***************************************************************************)
(* Claims about the training script, checked under SpecTraining.           *)
(***************************************************************************)

\* C12 (as claimed): the classifier that train_and_evaluate constructs with
\* model_type = m reports model_type = m after its train call, and when
\* that call returns the model it holds is variant m fitted, whatever file
\* was at model_path when it was constructed.
C12_TrainsRequestedVariant ==
    (tr_pc = "done" /\ tr_call.entry = "train_and_evaluate" /\ tr_call.constructed) =>
        /\ cl_model_type = tr_call.model_type
        /\ tr_error = "none" => cl_model = FittedModel(tr_call.model_type)

\* C13 (as claimed): whenever the script has handed a matrix to a fit, its
\* columns are in the order in which prepare_single_input builds the vector
\* at inference: task_hours, idle_hours, social_media_usage,
\* break_frequency, tasks_completed.
C13_SameFeatureOrder ==
    tr_fit.columns # <<>> =>
        /\ FEATURE_COLUMNS =
              <<"task_hours", "idle_hours", "social_media_usage",
                "break_frequency", "tasks_completed">>
        /\ tr_fit.columns = FEATURE_COLUMNS

\* C16 (as claimed): every row the script hands to calculate_score to label
\* the training data, and every cell of the matrix it hands to a fit, lies
\* in the declared range of its metric: the values were clipped first.
C16_ClippedBeforeUse ==
    /\ \A i \in DOMAIN tr_scored : InDeclaredRange(tr_scored[i])
    /\ \A i \in DOMAIN tr_fit.X : \A k \in DOMAIN tr_fit.columns :
          /\ tr_fit.X[i][k] >= ClipRanges[tr_fit.columns[k]][1]
          /\ tr_fit.X[i][k] <= ClipRanges[tr_fit.columns[k]][2]


(***************************************************************************)
(* Inference: prepare_single_input (services/preprocessing.py) and         *)
(* predict_single, get_model_info, get_feature_importance                  *)
(* (services/ml_model.py).                                                 *)
(*                                                                         *)
(* A probability is in thousandths.  A feature vector is [values, scaled]: *)
(* the clipped cells in column order, and whether the scaler's transform   *)
(* has been applied to them.                                               *)
(***************************************************************************)

\* MLClassifier.CATEGORY_CLASSES
CATEGORY_CLASSES ==
    <<FAKE_PRODUCTIVITY, MODERATELY_PRODUCTIVE, HIGHLY_PRODUCTIVE>>

\* classes_ of an estimator fitted on the three labels: fit stores the
\* distinct labels of y sorted, and "Fake Productivity" < "Highly
\* Productive" < "Moderately Productive".  predict_proba has one column per
\* entry of classes_, in this order.
SortedClasses ==
    <<FAKE_PRODUCTIVITY, HIGHLY_PRODUCTIVE, MODERATELY_PRODUCTIVE>>

\* The five arguments of prepare_single_input as its one-row frame.
SingleRow(task_hours, idle_hours, social_media_usage, break_frequency, tasks_completed) ==
    [task_hours |-> task_hours,
     idle_hours |-> idle_hours,
     social_media_usage |-> social_media_usage,
     break_frequency |-> break_frequency,
     tasks_completed |-> tasks_completed]

\* df[self.FEATURE_COLUMNS].values for a one-row frame.
FeatureVector(row) == [k \in DOMAIN FEATURE_COLUMNS |-> row[FEATURE_COLUMNS[k]]]

\* prepare_single_input that fits the scaler on the row when none is fitted.
PrepareSingleInputFits(p, row) ==
    LET df == ClipValues(row)
    IN  [p |-> [scaler |-> FittedScaler, is_fitted |-> TRUE],
         X |-> <<[values |-> FeatureVector(df), scaled |-> TRUE]>>,
         error |-> "none"]

\* DataPreprocessor.prepare_single_input: the preprocessor afterwards, the
\* vector returned (<<>> when it raises) and the error.  The transform of a
\* scaler object that holds no statistics raises NotFittedError.
PrepareSingleInput(p, row) ==
    LET df == ClipValues(row)
    IN  IF p.is_fitted
            THEN IF p.scaler.fitted
                     THEN [p |-> p,
                           X |-> <<[values |-> FeatureVector(df), scaled |-> TRUE]>>,
                           error |-> "none"]
                     ELSE [p |-> p, X |-> <<>>, error |-> "NotFittedError"]
            ELSE [p |-> p,
                  X |-> <<[values |-> FeatureVector(df), scaled |-> FALSE]>>,
                  error |-> "none"]

\* max(probs)
RECURSIVE SeqMax(_)
SeqMax(probs) ==
    IF Len(probs) = 1 THEN probs[1]
    ELSE Max(probs[1], SeqMax(Tail(probs)))

\* The label the estimator predicts: the class of the first largest
\* probability.
PredictedClass(classes, probs) ==
    classes[CHOOSE i \in DOMAIN probs :
                /\ probs[i] = SeqMax(probs)
                /\ \A j \in 1..(i - 1) : probs[j] < probs[i]]

\* The loop of predict_single that builds prob_dict: the i-th entry of
\* CATEGORY_CLASSES gets probs[i], or 0.0 when probs is shorter.
ProbDict(probs) ==
    [category \in {CATEGORY_CLASSES[i] : i \in DOMAIN CATEGORY_CLASSES} |->
        LET i == CHOOSE k \in DOMAIN CATEGORY_CLASSES : CATEGORY_CLASSES[k] = category
        IN  IF i <= Len(probs) THEN probs[i] ELSE 0]

\* predict_single from the return of prepare_single_input on: the call of
\* predict on the prepared vector and the dict built from what it returns.
\* An exception of either call leaves predict_single at once.
PredictPrepared(c, prepared, classes, probs, input_ok) ==
    IF prepared.error # "none"
        THEN [c |-> c, p |-> prepared.p, X |-> prepared.X,
              error |-> prepared.error, result |-> <<>>]
    ELSE IF Predict(c, input_ok) # "none"
        THEN [c |-> c, p |-> prepared.p, X |-> prepared.X,
              error |-> Predict(c, input_ok), result |-> <<>>]
    ELSE [c |-> c, p |-> prepared.p, X |-> prepared.X, error |-> "none",
          result |-> <<[predicted_category |-> PredictedClass(classes, probs),
                        confidence |-> SeqMax(probs),
                        probabilities |-> ProbDict(probs),
                        model_used |-> c.model_type]>>]

\* MLClassifier.predict_single.  classes and probs are the estimator's
\* classes_ and the row predict_proba returns for X; input_ok as in Predict.
\* The result is both objects afterwards, the vector handed to predict, the
\* dict returned (<<>> when the call raises) and the error.
predict_single(c, p, row, classes, probs, input_ok) ==
    PredictPrepared(c, PrepareSingleInput(p, row), classes, probs, input_ok)

\* hasattr(self.model, 'feature_importances_'): the two tree variants have
\* it once fitted.
HasFeatureImportances(model) ==
    model.fitted /\ model.kind \in {"random_forest", "decision_tree"}

\* hasattr(self.model, 'coef_')
HasCoef(model) == model.fitted /\ model.kind = "logistic_regression"

\* MLClassifier.get_model_info: the classifier afterwards and the dict.
get_model_info(c) ==
    [c |-> c,
     info |-> [model_type |-> c.model_type, is_trained |-> c.is_trained,
               accuracy |-> c.training_accuracy, features |-> FEATURE_COLUMNS,
               classes |-> CATEGORY_CLASSES,
               feature_importances |->
                   (c.is_trained /\ c.model # NoModel
                        /\ HasFeatureImportances(c.model))]]

\* MLClassifier.get_feature_importance: the classifier afterwards and what
\* the returned dict is made from, or None.
get_feature_importance(c) ==
    [c |-> c,
     importance |->
        IF ~c.is_trained \/ c.model = NoModel THEN None
        ELSE IF HasFeatureImportances(c.model) THEN "feature_importances_"
        ELSE IF HasCoef(c.model) THEN "coef_"
        ELSE None]

\* The arguments a route passes to calculate_score for a row of metrics:
\* social_media_usage goes to the parameter social_media_hours.
ScorerArgsOf(row) ==
    [task_hours |-> row.task_hours,
     idle_hours |-> row.idle_hours,
     social_media_hours |-> row.social_media_usage,
     break_frequency |-> row.break_frequency,
     tasks_completed |-> row.tasks_completed]

\* The default of generate_suggestions' max_suggestions parameter.
DefaultMaxSuggestions == 5

\* generate_suggestions for a row of metrics and the score of that row.
SuggestionsFor(rules, row, max_suggestions) ==
    generate_suggestions(rules, row.task_hours, row.idle_hours,
                         row.social_media_usage, row.break_frequency,
                         row.tasks_completed, ScoreOf(ScorerArgsOf(row)).score,
                         max_suggestions)

(***************************************************************************)
(* The inputs of inference.                                                *)
(***************************************************************************)

\* Metrics handed to predict_single and prepare_single_input: the worked
\* example, and a row with every cell outside its declared range.
InferenceRows ==
    {SingleRow(6500, 1500, 2000, 5, 8),
     SingleRow(30000, -1000, 25000, 60, 120)}

\* What a fitted estimator answers: its classes_ and one row of
\* predict_proba.  The last is an estimator fitted on data without a Highly
\* Productive row.
ModelOutputs ==
    {[classes |-> SortedClasses, probs |-> <<100, 700, 200>>],
     [classes |-> SortedClasses, probs |-> <<600, 100, 300>>],
     [classes |-> SortedClasses, probs |-> <<400, 300, 300>>],
     [classes |-> <<FAKE_PRODUCTIVITY, MODERATELY_PRODUCTIVE>>,
      probs |-> <<300, 700>>]}

\* A record of a direct call: the operation, its row, the estimator's
\* answer, is_fitted as the call found it, and what the call produced.
InferenceCall(op, row, output, is_fitted, X, result, error) ==
    [op |-> op, row |-> row, output |-> output, is_fitted |-> is_fitted,
     X |-> X, result |-> result, error |-> error]

\* A caller invokes classifier.predict_single.
CallPredictSingle ==
    /\ \E row \in InferenceRows, output \in ModelOutputs, input_ok \in BOOLEAN :
          LET r == predict_single(CurrentClassifier, CurrentPreprocessor, row,
                                  output.classes, output.probs, input_ok)
          IN  /\ SetClassifier(r.c)
              /\ SetPreprocessor(r.p)
              /\ inf_last' = <<InferenceCall("predict_single", row, output,
                                             pp_is_fitted, r.X, r.result, r.error)>>
    /\ UNCHANGED <<cl_train_returned, fs_model, fs_scaler, ml_last, ml_object>>
    /\ UNCHANGED notInferenceVars

\* A caller invokes preprocessor.prepare_single_input.
CallPrepareSingleInput ==
    /\ \E row \in InferenceRows :
          LET r == PrepareSingleInput(CurrentPreprocessor, row)
          IN  /\ SetPreprocessor(r.p)
              /\ inf_last' = <<InferenceCall("prepare_single_input", row,
                                             <<>>, pp_is_fitted, r.X, <<>>, r.error)>>
    /\ UNCHANGED <<classifierVars, fs_model, fs_scaler, ml_last, ml_object>>
    /\ UNCHANGED notInferenceVars

\* A caller invokes classifier.get_model_info.
CallGetModelInfo ==
    /\ LET r == get_model_info(CurrentClassifier)
       IN  /\ SetClassifier(r.c)
           /\ inf_last' = <<InferenceCall("get_model_info", <<>>, <<>>,
                                          pp_is_fitted, <<>>, <<r.info>>, "none")>>
    /\ UNCHANGED <<cl_train_returned, preprocessorVars, fs_model, fs_scaler,
                   ml_last, ml_object>>
    /\ UNCHANGED notInferenceVars

\* A caller invokes classifier.get_feature_importance.
CallGetFeatureImportance ==
    /\ LET r == get_feature_importance(CurrentClassifier)
       IN  /\ SetClassifier(r.c)
           /\ inf_last' = <<InferenceCall("get_feature_importance", <<>>, <<>>,
                                          pp_is_fitted, <<>>, <<r.importance>>,
                                          "none")>>
    /\ UNCHANGED <<cl_train_returned, preprocessorVars, fs_model, fs_scaler,
                   ml_last, ml_object>>
    /\ UNCHANGED notInferenceVars

\* A caller invokes classifier.predict on a prepared batch.
CallPredict ==
    /\ \E input_ok \in BOOLEAN :
          inf_last' = <<InferenceCall("predict", <<>>, <<>>, pp_is_fitted, <<>>,
                                      <<>>, Predict(CurrentClassifier, input_ok))>>
    /\ UNCHANGED <<classifierVars, preprocessorVars, fs_model, fs_scaler,
                   ml_last, ml_object>>
    /\ UNCHANGED notInferenceVars

\* A caller invokes scorer.calculate_score.
CallCalculateScore ==
    /\ \E row \in InferenceRows :
          inf_last' = <<InferenceCall("calculate_score", row, <<>>, pp_is_fitted,
                                      <<>>, <<ScoreOf(ScorerArgsOf(row))>>, "none")>>
    /\ UNCHANGED mlVars
    /\ UNCHANGED notInferenceVars

\* A caller invokes suggestion_engine.generate_suggestions with the score of
\* the row and the default max_suggestions.
CallGenerateSuggestions ==
    /\ \E row \in InferenceRows :
          inf_last' = <<InferenceCall("generate_suggestions", row, <<>>,
                                      pp_is_fitted, <<>>,
                                      <<SuggestionsFor(sg_rules, row, DefaultMaxSuggestions).result>>,
                                      "none")>>
    /\ UNCHANGED mlVars
    /\ UNCHANGED notInferenceVars

InferenceNext ==
    \/ CallPredictSingle
    \/ CallPrepareSingleInput
    \/ CallGetModelInfo
    \/ CallGetFeatureImportance
    \/ CallPredict
    \/ CallCalculateScore
    \/ CallGenerateSuggestions

(***************************************************************************)
(* Claims about inference, checked under SpecInference.                    *)
(***************************************************************************)

\* The probability the estimator gave to a label: the entry of probs at the
\* label's place in classes_, and 0 for a label that is not in classes_.
ProbabilityGiven(output, label) ==
    IF \E i \in DOMAIN output.classes : output.classes[i] = label
        THEN output.probs[CHOOSE i \in DOMAIN output.classes :
                              output.classes[i] = label]
        ELSE 0

\* C14 (as claimed): in the dict predict_single returns, probabilities maps
\* each of the three labels to the probability the estimator gave to that
\* label, confidence is the largest class probability, and the probability
\* listed for the predicted category equals confidence.
C14_ProbabilitiesByClass ==
    \A i \in DOMAIN inf_last :
        (inf_last[i].op = "predict_single" /\ inf_last[i].error = "none") =>
            LET call == inf_last[i]
                result == call.result[1]
            IN  /\ \A label \in CategoryLabels :
                      result.probabilities[label] = ProbabilityGiven(call.output, label)
                /\ result.confidence = SeqMax(call.output.probs)
                /\ result.probabilities[result.predicted_category] = result.confidence

\* C15 (as claimed): prepare_single_input never raises; it returns the five
\* values clipped to their declared ranges, in FEATURE_COLUMNS order, scaled
\* when is_fitted is true and unscaled when is_fitted is false.
C15_PrepareNeverRaises ==
    \A i \in DOMAIN inf_last :
        inf_last[i].op = "prepare_single_input" =>
            LET call == inf_last[i]
            IN  /\ call.error = "none"
                /\ Len(call.X) = 1
                /\ call.X[1].values = FeatureVector(ClipValues(call.row))
                /\ call.X[1].scaled = call.is_fitted

\* The fitted state of the serving process: the classifier's model,
\* model_type, training_accuracy and is_trained, the preprocessor's scaler
\* and is_fitted, and the suggestion engine's rule list.
FittedState ==
    <<cl_model, cl_model_type, cl_training_accuracy, cl_is_trained,
      pp_scaler, pp_is_fitted, sg_rules>>

InferenceOps ==
    {"predict", "predict_single", "get_feature_importance", "get_model_info",
     "prepare_single_input", "calculate_score", "generate_suggestions"}

\* C19: a call of predict, predict_single, get_feature_importance,
\* get_model_info, prepare_single_input, calculate_score or
\* generate_suggestions leaves model, model_type, training_accuracy,
\* is_trained, scaler, is_fitted and the rule list as they were, in every
\* order in which callers make these calls, whether the call returns or
\* raises.
C19_InferenceLeavesFittedState ==
    [][(\A i \in DOMAIN inf_last' : inf_last'[i].op \in InferenceOps)
           => FittedState' = FittedState]_vars

\* C19 is exercised: predict_single has returned a prediction from a trained
\* classifier whose preprocessor had no fitted scaler, the state in which a
\* call that fitted on the fly would show.
C19_Witness ==
    \E i \in DOMAIN inf_last :
        /\ inf_last[i].op = "predict_single"
        /\ inf_last[i].error = "none"
        /\ cl_is_trained /\ cl_model = FittedModel("random_forest")
        /\ ~pp_is_fitted /\ pp_scaler = NewScaler


(***************************************************************************)
(* The request handlers: analyze_productivity and quick_analyze            *)
(* (routes/analysis.py), upload_csv (routes/csv_upload.py) and the parser  *)
(* it reads its rows from (utils/csv_parser.py).                           *)
(*                                                                         *)
(* The handlers are coroutines of one event loop; they share the           *)
(* classifier, the preprocessor, the scorer and the suggestion engine.  A  *)
(* single analysis is one step.  An upload is one step for the reading and *)
(* parsing of the file and one step per row: the body of the loop up to    *)
(* and including the awaited create_analysis and the append that follows,  *)
(* the last of them building the response.  Steps of different handlers    *)
(* interleave.                                                             *)
(***************************************************************************)

\* The constraints of ActivityDataInput and MLPredictionRequest: a request
\* with a value outside them is rejected before the handler runs.
ValidActivity(row) ==
    /\ row.task_hours >= 0 /\ row.task_hours <= 24 * Scale
    /\ row.idle_hours >= 0 /\ row.idle_hours <= 24 * Scale
    /\ row.social_media_usage >= 0 /\ row.social_media_usage <= 24 * Scale
    /\ row.break_frequency >= 0 /\ row.break_frequency <= 50
    /\ row.tasks_completed >= 0 /\ row.tasks_completed <= 100

\* The try/except around predict_single: ml_category is the predicted
\* category of the dict r the call returned, and None when it raised.
MlResult(r) ==
    [c |-> r.c, p |-> r.p, called |-> TRUE, raised |-> r.error # "none",
     ml_category |-> IF r.error = "none" THEN r.result[1].predicted_category
                     ELSE None]

\* The "ML prediction" block without its is_trained test.
MlCategoryUnguarded(c, p, row, output, input_ok) ==
    MlResult(predict_single(c, p, row, output.classes, output.probs, input_ok))

\* The "ML prediction" block of the three handlers: ml_category starts as
\* None; predict_single is called when classifier.is_trained, and an
\* exception it raises is caught and leaves ml_category None.
MlCategory(c, p, row, output, input_ok) ==
    IF c.is_trained
        THEN MlResult(predict_single(c, p, row, output.classes, output.probs,
                                     input_ok))
        ELSE [c |-> c, p |-> p, called |-> FALSE, raised |-> FALSE,
              ml_category |-> None]

\* AnalysisResult(...) as the handlers fill it, with the two objects as the
\* ML block left them.
AnalysisResult(row, scoring_result, ml, suggestions) ==
    [c |-> ml.c, p |-> ml.p,
     result |->
        [productivity_score |-> scoring_result.score,
         category_rule_based |-> scoring_result.category,
         category_ml |-> ml.ml_category,
         breakdown |->
            [productive |-> scoring_result.breakdown.productive,
             idle |-> scoring_result.breakdown.idle,
             social |-> scoring_result.breakdown.social,
             breaks |-> scoring_result.breakdown.breaks],
         suggestions |-> suggestions,
         metrics |-> row,
         ml_called |-> ml.called,
         ml_raised |-> ml.raised]]

\* What the three handlers compute for one set of metrics before anything is
\* stored: the score, the ML category and the suggestions, as the fields of
\* the AnalysisResult they build.  ml_called and ml_raised tell what
\* happened in the ML block.
AnalyzeMetrics(c, p, rules, row, output, input_ok, max_suggestions) ==
    AnalysisResult(row, ScoreOf(ScorerArgsOf(row)),
                   MlCategory(c, p, row, output, input_ok),
                   SuggestionsFor(rules, row, max_suggestions).result)

\* The response of a single analysis: the status and, for 200, the
\* AnalysisResult; with it, what happened in the ML block and whether the
\* record came back.
Response(status, body, ml_called, ml_raised, record_ok) ==
    [status |-> status, body |-> body, ml_called |-> ml_called,
     ml_raised |-> ml_raised, record_ok |-> record_ok]

\* A handler: the endpoint it serves, where it is, the rows it parsed, the
\* results and row_errors lists of upload_csv, and its response.  An entry
\* of results is the AnalysisResult with the number of its row; an entry of
\* row_errors is the number of the row its message names.
Handler(endpoint, pc, rows, results, row_errors, response) ==
    [endpoint |-> endpoint, pc |-> pc, rows |-> rows, results |-> results,
     row_errors |-> row_errors, response |-> response]

IdleHandler == Handler("none", "idle", <<>>, <<>>, <<>>, <<>>)

\* The end of a single analysis a: the AnalysisResult is returned when it
\* could be built, and the handler's except clause answers 500 otherwise.
Answer(endpoint, a, record_ok) ==
    [c |-> a.c, p |-> a.p,
     h |-> Handler(endpoint, "done", <<>>, <<>>, <<>>,
                   <<Response(IF record_ok THEN 200 ELSE 500,
                              IF record_ok THEN <<a.result>> ELSE <<>>,
                              a.result.ml_called, a.result.ml_raised,
                              record_ok)>>)]

\* A request that fails validation is answered 422; the handler does not run.
Rejected(endpoint, c, p) ==
    [c |-> c, p |-> p,
     h |-> Handler(endpoint, "done", <<>>, <<>>, <<>>,
                   <<Response(422, <<>>, FALSE, FALSE, TRUE)>>)]

\* analyze_productivity.  record_ok: create_analysis returns a record from
\* which AnalysisResult can be built; when it is not, the exception reaches
\* the handler's except clause and the answer is a 500.
analyze_productivity(c, p, rules, row, output, input_ok, record_ok) ==
    Answer("analyze_productivity",
           AnalyzeMetrics(c, p, rules, row, output, input_ok,
                          DefaultMaxSuggestions),
           record_ok)

\* quick_analyze: the same without the store.
quick_analyze(c, p, rules, row, output, input_ok) ==
    Answer("quick_analyze",
           AnalyzeMetrics(c, p, rules, row, output, input_ok,
                          DefaultMaxSuggestions),
           TRUE)

\* defaults of CSVParser._clean_data for the columns a file lacks.
CsvDefaults ==
    [task_hours |-> 0, idle_hours |-> 0, social_media_usage |-> 0,
     break_frequency |-> 0, tasks_completed |-> 0]

\* MINIMUM_REQUIRED of CSVParser.
MINIMUM_REQUIRED == <<"task_hours", "idle_hours">>

\* CSVParser._clean_data and get_row_data on one row: the five columns, a
\* missing one at its default, each clipped to its range.
CleanCsvRow(row) ==
    ClipValues([col \in DOMAIN CsvDefaults |->
                   IF col \in DOMAIN row THEN row[col] ELSE CsvDefaults[col]])

\* parse_csv_bytes followed by get_all_rows, on a file whose columns already
\* carry their standard names: the rows and the errors.
ParseCsv(frame) ==
    IF frame = <<>>
        THEN [rows |-> <<>>, errors |-> <<"CSV file is empty">>]
    ELSE IF \E k \in DOMAIN MINIMUM_REQUIRED :
                MINIMUM_REQUIRED[k] \notin DOMAIN frame[1]
        THEN [rows |-> <<>>, errors |-> <<"Missing required column">>]
    ELSE [rows |-> [i \in DOMAIN frame |-> CleanCsvRow(frame[i])],
          errors |-> <<>>]

\* max_suggestions of the rows of an upload.
UploadMaxSuggestions == 3

\* BatchAnalysisResult
BatchResponse(total_rows, results, errors) ==
    [status |-> 200, total_rows |-> total_rows, successful |-> Len(results),
     failed |-> Len(errors), results |-> results, errors |-> errors]

\* upload_csv from the request to the start of the loop, on what the parser
\* returned.
upload_csv_parse(parsed) ==
    IF parsed.errors # <<>>
        THEN Handler("upload_csv", "done", <<>>, <<>>, <<>>,
                     <<BatchResponse(0, <<>>, parsed.errors)>>)
        ELSE Handler("upload_csv", "rows", parsed.rows, <<>>, <<>>, <<>>)

\* i of the loop: the number of the row the next pass processes.
RowNumber(h) == Len(h.results) + Len(h.row_errors) + 1

\* The lists after one pass of the loop and, after the last row, the
\* response.
AfterRow(h, results, row_errors) ==
    IF Len(results) + Len(row_errors) = Len(h.rows)
        THEN Handler("upload_csv", "done", h.rows, results, row_errors,
                     <<BatchResponse(Len(h.rows), results, row_errors)>>)
        ELSE Handler("upload_csv", "rows", h.rows, results, row_errors, <<>>)

\* A loop whose first failing row ends it: the response is built from the
\* lists as they stand.
EndOfPassAborts(h, a, record_ok) ==
    [c |-> a.c, p |-> a.p,
     h |-> IF record_ok
               THEN AfterRow(h, Append(h.results, [row |-> RowNumber(h),
                                                   result |-> a.result]),
                             h.row_errors)
               ELSE Handler("upload_csv", "done", h.rows, h.results,
                            Append(h.row_errors, RowNumber(h)),
                            <<BatchResponse(Len(h.rows), h.results,
                                            Append(h.row_errors, RowNumber(h)))>>)]

\* The end of one pass of the loop, a being what the body computed for the
\* row: the result is appended to results, or the body raised, the
\* exception is caught, the row's message is appended to row_errors and the
\* loop goes on.
EndOfPass(h, a, record_ok) ==
    [c |-> a.c, p |-> a.p,
     h |-> IF record_ok
               THEN AfterRow(h, Append(h.results, [row |-> RowNumber(h),
                                                   result |-> a.result]),
                             h.row_errors)
               ELSE AfterRow(h, h.results, Append(h.row_errors, RowNumber(h)))]

\* One pass of the loop of upload_csv.
upload_csv_row(h, c, p, rules, output, input_ok, record_ok) ==
    EndOfPass(h,
              AnalyzeMetrics(c, p, rules, h.rows[RowNumber(h)], output,
                             input_ok, UploadMaxSuggestions),
              record_ok)

(***************************************************************************)
(* The inputs of the handlers.                                             *)
(***************************************************************************)

\* The coroutines in flight.
Handlers == {"h1", "h2"}

\* The metrics of single-analysis requests: the worked example, a day with
\* no work done, and a request outside the declared ranges.
RequestRows ==
    {SingleRow(6500, 1500, 2000, 5, 8),
     SingleRow(0, 8000, 6000, 12, 0),
     SingleRow(30000, -1000, 25000, 60, 120)}

\* The uploaded files after read_csv: two rows of which the first is outside
\* the declared ranges, a file with only the two required columns, a file
\* lacking idle_hours, and an empty file.
UploadFrames ==
    {<<SingleRow(30000, -1000, 25000, 60, 120), SingleRow(6500, 1500, 2000, 5, 8)>>,
     <<[task_hours |-> 4000, idle_hours |-> 3000]>>,
     <<[task_hours |-> 4000, tasks_completed |-> 3]>>,
     <<>>}

\* What the estimator answers to the requests.
RequestOutputs ==
    {[classes |-> SortedClasses, probs |-> <<100, 700, 200>>],
     [classes |-> SortedClasses, probs |-> <<600, 100, 300>>]}

\* A handler step ends: the shared objects are as the step left them and
\* the handler is where the step took it.
Serve(id, r) ==
    /\ SetClassifier(r.c)
    /\ SetPreprocessor(r.p)
    /\ rq' = [rq EXCEPT ![id] = r.h]
    /\ UNCHANGED <<cl_train_returned, fs_model, fs_scaler, ml_last, ml_object>>
    /\ UNCHANGED notRequestVars

\* A client posts to /analyze.
Analyze(id) ==
    /\ rq[id].pc = "idle"
    /\ \E row \in RequestRows, output \in RequestOutputs,
          input_ok \in BOOLEAN, record_ok \in BOOLEAN :
          Serve(id, IF ValidActivity(row)
                        THEN analyze_productivity(CurrentClassifier,
                                 CurrentPreprocessor, sg_rules, row, output,
                                 input_ok, record_ok)
                        ELSE Rejected("analyze_productivity", CurrentClassifier,
                                      CurrentPreprocessor))

\* A client posts to /analyze/quick.
QuickAnalyze(id) ==
    /\ rq[id].pc = "idle"
    /\ \E row \in RequestRows, output \in RequestOutputs, input_ok \in BOOLEAN :
          Serve(id, IF ValidActivity(row)
                        THEN quick_analyze(CurrentClassifier, CurrentPreprocessor,
                                           sg_rules, row, output, input_ok)
                        ELSE Rejected("quick_analyze", CurrentClassifier,
                                      CurrentPreprocessor))

\* A client posts a file to the upload endpoint: the file is read and parsed.
UploadCsv(id) ==
    /\ rq[id].pc = "idle"
    /\ \E frame \in UploadFrames :
          rq' = [rq EXCEPT ![id] = upload_csv_parse(ParseCsv(frame))]
    /\ UNCHANGED mlVars
    /\ UNCHANGED notRequestVars

\* The loop of upload_csv processes its next row.
UploadCsvRow(id) ==
    /\ rq[id].pc = "rows"
    /\ \E output \in RequestOutputs, input_ok \in BOOLEAN, record_ok \in BOOLEAN :
          Serve(id, upload_csv_row(rq[id], CurrentClassifier, CurrentPreprocessor,
                                   sg_rules, output, input_ok, record_ok))

RequestNext ==
    \E h \in Handlers :
        \/ Analyze(h)
        \/ QuickAnalyze(h)
        \/ UploadCsv(h)
        \/ UploadCsvRow(h)

(***************************************************************************)
(* Claims about the request handlers, checked under SpecRequest.           *)
(***************************************************************************)

\* The numbers of the rows an upload has finished, successful or failed.
RowsDone(h) ==
    {h.results[k].row : k \in DOMAIN h.results}
        \cup {h.row_errors[k] : k \in DOMAIN h.row_errors}

\* C17: in an upload, the rows finished so far are exactly rows 1..n of the
\* parsed rows, each finished once, as one entry of results or one entry of
\* errors and never both, in row order within each list, whatever rows
\* failed before; each result belongs to the row it is numbered with; and
\* the response comes after the last row, with total_rows the number of
\* parsed rows, successful the number of results, failed the number of
\* errors, and successful + failed = total_rows.
C17_EveryRowOnce ==
    \A id \in Handlers :
        rq[id].endpoint = "upload_csv" =>
            LET h == rq[id]
                n == Len(h.results) + Len(h.row_errors)
            IN  /\ n <= Len(h.rows)
                /\ RowsDone(h) = 1..n
                /\ \A k \in DOMAIN h.results : \A l \in DOMAIN h.row_errors :
                      h.results[k].row # h.row_errors[l]
                /\ \A k, l \in DOMAIN h.results :
                      k < l => h.results[k].row < h.results[l].row
                /\ \A k, l \in DOMAIN h.row_errors :
                      k < l => h.row_errors[k] < h.row_errors[l]
                /\ \A k \in DOMAIN h.results :
                      h.results[k].result.metrics = h.rows[h.results[k].row]
                /\ (h.pc = "done" /\ h.rows # <<>>) =>
                      /\ n = Len(h.rows)
                      /\ h.response[1].total_rows = Len(h.rows)
                      /\ h.response[1].successful = Len(h.response[1].results)
                      /\ h.response[1].results = h.results
                      /\ h.response[1].failed = Len(h.response[1].errors)
                      /\ h.response[1].errors = h.row_errors
                      /\ h.response[1].successful + h.response[1].failed =
                            h.response[1].total_rows
                /\ (h.pc = "rows") => (n < Len(h.rows) /\ h.response = <<>>)

\* C17 is exercised: an upload has answered after its first row failed and
\* a later row succeeded.
C17_Witness ==
    \E id \in Handlers :
        /\ rq[id].endpoint = "upload_csv"
        /\ rq[id].pc = "done"
        /\ \E k \in DOMAIN rq[id].row_errors : rq[id].row_errors[k] = 1
        /\ \E k \in DOMAIN rq[id].results : rq[id].results[k].row > 1

\* The AnalysisResults a handler has produced: the body of a single
\* analysis's response and the results of an upload.
ResultsOf(h) ==
    {h.results[k].result : k \in DOMAIN h.results}
        \cup (IF h.endpoint \in {"analyze_productivity", "quick_analyze"}
                  /\ h.response # <<>> /\ h.response[1].status = 200
              THEN {h.response[1].body[1]} ELSE {})

\* The responses of the single analyses a handler has answered.
SingleResponsesOf(h) ==
    IF h.endpoint \in {"analyze_productivity", "quick_analyze"}
        THEN {h.response[k] : k \in DOMAIN h.response}
        ELSE {}

\* C18: in the three handlers predict_single is called only with
\* classifier.is_trained true; when the classifier is untrained or the
\* prediction raised, category_ml is None; a prediction that raised does not
\* fail the analysis, which answers 200 whenever its record came back; and
\* every result carries the rule-based score and category of its metrics
\* and the suggestions generated for them.
C18_MlOnlyWhenTrained ==
    /\ \A id \in Handlers : \A response \in SingleResponsesOf(rq[id]) :
          /\ response.ml_called => cl_is_trained
          /\ (response.status # 422 /\ response.record_ok) =>
                (response.status = 200 /\ Len(response.body) = 1)
    /\ \A id \in Handlers : \A result \in ResultsOf(rq[id]) :
        /\ result.ml_called => cl_is_trained
        /\ (~cl_is_trained \/ result.ml_raised) => result.category_ml = None
        /\ result.productivity_score = ScoreOf(ScorerArgsOf(result.metrics)).score
        /\ result.category_rule_based =
              ScoreOf(ScorerArgsOf(result.metrics)).category
        /\ result.suggestions # <<>>
        /\ \E max_suggestions \in {UploadMaxSuggestions, DefaultMaxSuggestions} :
              result.suggestions =
                  SuggestionsFor(sg_rules, result.metrics, max_suggestions).result

\* C18 is exercised: a handler has produced a result for which the trained
\* classifier's predict_single was called and raised.
C18_Witness ==
    \E id \in Handlers : \E result \in ResultsOf(rq[id]) :
        /\ cl_is_trained
        /\ result.ml_called
        /\ result.ml_raised
        /\ result.category_ml = None
        /\ result.suggestions # <<>>


(***************************************************************************)
(* services/preprocessing.py: DataPreprocessor.clean_data on frames whose  *)
(* cells may be missing or hold text.                                      *)
(*                                                                         *)
(* A cell is a number, NaN (a missing value) or a string that is not a     *)
(* number.                                                                 *)
(***************************************************************************)
Number(v) == [kind |-> "number", value |-> v]

NaN == [kind |-> "NaN", value |-> 0]

Text == [kind |-> "text", value |-> 0]

\* Series.isna() on one cell.
IsNa(cell) == cell.kind = "NaN"

\* pd.to_numeric(df[col], errors='coerce') on one cell: what is not a number
\* becomes NaN.
ToNumeric(cell) == IF cell.kind = "number" THEN cell ELSE NaN

\* The loop of clean_data that converts the feature columns a frame has.
ConvertToNumeric(df) ==
    [i \in DOMAIN df |->
        [col \in DOMAIN df[i] |->
            IF col \in FeatureColumnSet THEN ToNumeric(df[i][col])
            ELSE df[i][col]]]

\* The values of column col that are not NaN, from row i on.
RECURSIVE ColumnValues(_, _, _)
ColumnValues(df, col, i) ==
    IF i > Len(df) THEN <<>>
    ELSE (IF IsNa(df[i][col]) THEN <<>> ELSE <<df[i][col].value>>)
             \o ColumnValues(df, col, i + 1)

\* s without its element at position k.
RemoveAt(s, k) == SubSeq(s, 1, k - 1) \o SubSeq(s, k + 1, Len(s))

\* The numbers of s in ascending order.
RECURSIVE SortNumbers(_)
SortNumbers(s) ==
    IF s = <<>> THEN <<>>
    ELSE LET k == CHOOSE i \in DOMAIN s : \A j \in DOMAIN s : s[i] <= s[j]
         IN  <<s[k]>> \o SortNumbers(RemoveAt(s, k))

\* The middle of an ascending sequence: the middle element, or the mean of
\* the two middle elements (the frames read here make that mean a whole
\* number of thousandths).
MiddleOf(sorted) ==
    IF Len(sorted) % 2 = 1 THEN sorted[(Len(sorted) + 1) \div 2]
    ELSE (sorted[Len(sorted) \div 2] + sorted[Len(sorted) \div 2 + 1]) \div 2

\* Series.median(): NaN values are skipped, and the median of a column that
\* has no number is NaN.
Median(df, col) ==
    IF ColumnValues(df, col, 1) = <<>> THEN NaN
    ELSE Number(MiddleOf(SortNumbers(ColumnValues(df, col, 1))))

\* Series.fillna(fill_value) on one cell; filling with NaN leaves NaN.
FillNa(cell, fill_value) == IF IsNa(cell) THEN fill_value ELSE cell

\* handle_missing_values with strategy 'median', the strategy clean_data
\* uses: the NaN cells of every feature column take the column's median.
handle_missing_values(df) ==
    [i \in DOMAIN df |->
        [col \in DOMAIN df[i] |->
            IF col \in FeatureColumnSet THEN FillNa(df[i][col], Median(df, col))
            ELSE df[i][col]]]

\* clip_values on a frame: Series.clip leaves NaN as it is.
clip_values(df) ==
    [i \in DOMAIN df |->
        [col \in DOMAIN df[i] |->
            IF col \in DOMAIN ClipRanges /\ ~IsNa(df[i][col])
                THEN Number(Clip(df[i][col].value, ClipRanges[col][1],
                                 ClipRanges[col][2]))
                ELSE df[i][col]]]

\* The rows of df that drop_duplicates keeps: the first of every group of
\* equal rows (drop_duplicates counts two NaN cells as equal).
KeptRows(df) == {i \in DOMAIN df : \A j \in 1..(i - 1) : df[j] # df[i]}

\* The steps of clean_data after the conversion, and what it returns.
CleanFromNumeric(df, numeric) ==
    [input |-> df,
     numeric |-> numeric,
     clipped |-> clip_values(handle_missing_values(numeric)),
     result |-> DropDuplicates(clip_values(handle_missing_values(numeric)), 1)]

\* DataPreprocessor.clean_data: column names, to_numeric, handle_missing_values,
\* clip_values, drop_duplicates.  Besides the returned frame the record holds
\* the frame after the conversion and the frame before drop_duplicates.
CleanData(df) ==
    CleanFromNumeric(df,
        ConvertToNumeric([i \in DOMAIN df |-> StandardizeColumns(df[i], 1)]))

(***************************************************************************)
(* The batches handed to clean_data.                                       *)
(***************************************************************************)
\* idle_hours cells: in range, out of range, missing, text.
CleanIdleCells ==
    {Number(1 * Scale), Number(20 * Scale), Number(30 * Scale), NaN, Text}

CleanBreakCells == {Number(4), Number(7), NaN}

\* The rows of a batch: two feature columns vary, one of them under a name
\* that column_mapping renames, and the other three are fixed.
CleanRows ==
    {[task_hours |-> Number(6 * Scale), idle_time |-> idle,
      social_media_usage |-> Number(1 * Scale), break_frequency |-> breaks,
      tasks_completed |-> Number(5)] :
        idle \in CleanIdleCells, breaks \in CleanBreakCells}

MaxCleanRows == 3

CleanFrames == UNION {[1..n -> CleanRows] : n \in 1..MaxCleanRows}

\* One call of clean_data on the batch.
CallCleanData ==
    /\ cd_out = <<>>
    /\ cd_out' = <<CleanData(cd_frame)>>
    /\ UNCHANGED cd_frame
    /\ UNCHANGED notCleaningVars

CleaningNext == CallCleanData

(***************************************************************************)
(* Claims about clean_data, checked under SpecCleaning.                    *)
(***************************************************************************)
CleanFeatureColumns == FeatureColumnSet \cap DOMAIN cd_out[1].numeric[1]

\* The cell of the input frame that became column col of row i.
InputCell(i, col) == StandardizeColumns(cd_frame[i], 1)[col]

\* C24 (as claimed): after clean_data, every cell of a feature column that
\* was missing or not a number in the input holds the median of the
\* non-missing values of that feature in the batch.
C24_MissingCellsHoldMedian ==
    cd_out # <<>> =>
        \A i \in KeptRows(cd_out[1].clipped), col \in CleanFeatureColumns :
            InputCell(i, col).kind # "number" =>
                cd_out[1].clipped[i][col] = Median(cd_out[1].numeric, col)

\* C25 (as claimed): after clean_data, no cell of a feature column is
\* missing and every such cell lies within its declared range, for every
\* batch, a batch with a feature column that has no number included.
C25_NoMissingAllInRange ==
    cd_out # <<>> =>
        \A i \in DOMAIN cd_out[1].result, col \in CleanFeatureColumns :
            /\ cd_out[1].result[i][col].kind = "number"
            /\ cd_out[1].result[i][col].value >= ClipRanges[col][1]
            /\ cd_out[1].result[i][col].value <= ClipRanges[col][2]

(***************************************************************************)
(* models/database.py: ProductivityAnalysisDB, and the history endpoints   *)
(* of routes/history.py that read through it.                              *)
(*                                                                         *)
(* A record is [id, user_id, created_at]; the clock that stamps created_at *)
(* also numbers the ids, so both are unique and grow with time.  Every     *)
(* call reaches the Supabase table or fails on it, independently of the    *)
(* calls before.                                                           *)
(***************************************************************************)
Users == {"u1", "u2"}

\* How many records are created in a run.
MaxRecords == 3

\* The limit, count and offset arguments of the reads.
MaxHistoryLimit == 2

MaxHistoryOffset == 1

\* The record create_analysis builds (the fields the reads depend on).
NewRecord(user_id, now) == [id |-> now, user_id |-> user_id, created_at |-> now]

\* _fallback_create: _in_memory_history[user_id].insert(0, record)
FallbackCreate(memory, record) ==
    [memory EXCEPT ![record.user_id] = <<record>> \o memory[record.user_id]]

\* create_analysis: the table and the in-memory store afterwards, and the
\* record returned.  table_ok: the insert reaches the table.
create_analysis(table, memory, user_id, now, table_ok) ==
    IF table_ok
        THEN [table |-> Append(table, NewRecord(user_id, now)),
              memory |-> memory, served |-> "database",
              result |-> <<NewRecord(user_id, now)>>]
        ELSE [table |-> table,
              memory |-> FallbackCreate(memory, NewRecord(user_id, now)),
              served |-> "memory",
              result |-> <<NewRecord(user_id, now)>>]

\* .eq("user_id", user_id): the rows of the table that belong to the user.
RowsOfUser(table, user_id) ==
    LET OfUser(r) == r.user_id = user_id
    IN  SelectSeq(table, OfUser)

\* .order("created_at", desc=True)
RECURSIVE OrderByCreatedAtDesc(_)
OrderByCreatedAtDesc(rows) ==
    IF rows = <<>> THEN <<>>
    ELSE LET k == CHOOSE i \in DOMAIN rows :
                      \A j \in DOMAIN rows : rows[i].created_at >= rows[j].created_at
         IN  <<rows[k]>> \o OrderByCreatedAtDesc(
                                SubSeq(rows, 1, k - 1) \o SubSeq(rows, k + 1, Len(rows)))

\* .limit(limit).offset(offset): at most limit rows after the first offset.
PageOf(rows, limit, offset) ==
    SubSeq(rows, offset + 1, Min(offset + limit, Len(rows)))

\* The select of get_user_history on the table.
SelectHistory(table, user_id, limit, offset) ==
    PageOf(OrderByCreatedAtDesc(RowsOfUser(table, user_id)), limit, offset)

\* _fallback_get_history: the user's whole in-memory list.
FallbackGetHistory(memory, user_id) == memory[user_id]

\* get_user_history: the list returned and the store that served it.
get_user_history(table, memory, user_id, limit, offset, table_ok) ==
    IF table_ok
        THEN [served |-> "database",
              result |-> SelectHistory(table, user_id, limit, offset)]
        ELSE [served |-> "memory",
              result |-> FallbackGetHistory(memory, user_id)]

\* delete_user_history: the stores afterwards and the count returned.  The
\* delete on the table removes the user's rows; when it fails,
\* _fallback_delete_history empties the user's in-memory list.
delete_user_history(table, memory, user_id, table_ok) ==
    IF table_ok
        THEN [table |-> LET NotOfUser(r) == r.user_id # user_id
                        IN  SelectSeq(table, NotOfUser),
              memory |-> memory, served |-> "database",
              count |-> Len(RowsOfUser(table, user_id))]
        ELSE [table |-> table,
              memory |-> [memory EXCEPT ![user_id] = <<>>],
              served |-> "memory",
              count |-> Len(memory[user_id])]

\* A record of a call: the method or endpoint, its arguments, the store that
\* served it, and the list (for create_analysis the one record) returned.
DbCall(op, user_id, limit, offset, served, result) ==
    [op |-> op, user_id |-> user_id, limit |-> limit, offset |-> offset,
     served |-> served, result |-> result]

NoDbCall == DbCall("none", "none", 0, 0, "none", <<>>)

\* db.create_analysis(user_id, ...)
CreateAnalysis ==
    /\ db_clock < MaxRecords
    /\ \E user_id \in Users, table_ok \in BOOLEAN :
          LET r == create_analysis(db_table, db_memory, user_id, db_clock + 1, table_ok)
          IN  /\ db_table' = r.table
              /\ db_memory' = r.memory
              /\ db_live' = [db_live EXCEPT ![user_id] = @ \cup {r.result[1].id}]
              /\ db_last' = DbCall("create_analysis", user_id, 0, 0, r.served, r.result)
    /\ db_clock' = db_clock + 1
    /\ UNCHANGED notDatabaseVars

\* GET /history/{user_id}: db.get_user_history(user_id, limit, offset)
GetUserHistory ==
    /\ \E user_id \in Users, limit \in 1..MaxHistoryLimit,
          offset \in 0..MaxHistoryOffset, table_ok \in BOOLEAN :
          LET r == get_user_history(db_table, db_memory, user_id, limit, offset, table_ok)
          IN  db_last' = DbCall("get_user_history", user_id, limit, offset,
                                r.served, r.result)
    /\ UNCHANGED <<db_table, db_memory, db_clock, db_live>>
    /\ UNCHANGED notDatabaseVars

\* GET /history/{user_id}/recent: db.get_user_history(user_id, limit=count)
GetRecentHistory ==
    /\ \E user_id \in Users, count \in 1..MaxHistoryLimit, table_ok \in BOOLEAN :
          LET r == get_user_history(db_table, db_memory, user_id, count, 0, table_ok)
          IN  db_last' = DbCall("get_recent_history", user_id, count, 0,
                                r.served, r.result)
    /\ UNCHANGED <<db_table, db_memory, db_clock, db_live>>
    /\ UNCHANGED notDatabaseVars

\* DELETE /history/{user_id}: db.delete_user_history(user_id)
DeleteUserHistory ==
    /\ \E user_id \in Users, table_ok \in BOOLEAN :
          LET r == delete_user_history(db_table, db_memory, user_id, table_ok)
          IN  /\ db_table' = r.table
              /\ db_memory' = r.memory
              /\ db_live' = [db_live EXCEPT ![user_id] = {}]
              /\ db_last' = DbCall("delete_user_history", user_id, 0, 0, r.served, <<>>)
    /\ UNCHANGED db_clock
    /\ UNCHANGED notDatabaseVars

DatabaseNext ==
    \/ CreateAnalysis
    \/ GetUserHistory
    \/ GetRecentHistory
    \/ DeleteUserHistory

(***************************************************************************)
(* Claims about the history store, checked under SpecDatabase.             *)
(***************************************************************************)
\* The user's records in the store that served the last read, newest first.
StoredFor(user_id, served) ==
    IF served = "database"
        THEN OrderByCreatedAtDesc(RowsOfUser(db_table, user_id))
        ELSE db_memory[user_id]

\* C26 (as claimed): get_user_history(user_id, limit, offset) returns at most
\* limit records of that user, newest first, after skipping the first offset
\* records, whichever store serves the request; and the /recent endpoint
\* returns at most count records.
C26_HistoryPage ==
    /\ db_last.op = "get_user_history" =>
          LET res == db_last.result
              stored == StoredFor(db_last.user_id, db_last.served)
          IN  /\ Len(res) <= db_last.limit
              /\ \A k \in DOMAIN res : res[k].user_id = db_last.user_id
              /\ \A i, j \in DOMAIN res :
                    i < j => res[i].created_at > res[j].created_at
              /\ Len(res) = Min(db_last.limit, Max(Len(stored) - db_last.offset, 0))
              /\ \A k \in DOMAIN res : res[k] = stored[db_last.offset + k]
    /\ db_last.op = "get_recent_history" => Len(db_last.result) <= db_last.limit

\* C29 (as claimed): a record returned by create_analysis for a user is in
\* the result of every later get_user_history for that user with a
\* sufficient limit, until delete_user_history is called for the user,
\* whichever store each call reached.
C29_CreatedRecordsAreRead ==
    (/\ db_last.op = "get_user_history"
     /\ db_last.offset = 0
     /\ db_last.limit >= Cardinality(db_live[db_last.user_id])) =>
        \A id \in db_live[db_last.user_id] :
            \E k \in DOMAIN db_last.result : db_last.result[k].id = id

(***************************************************************************)
(* The lazy singleton accessors: get_scorer, get_classifier,               *)
(* get_preprocessor, get_suggestion_engine, get_csv_parser.                *)
(*                                                                         *)
(* The accessors are plain functions that FastAPI resolves as dependencies *)
(* in worker threads, so the first calls of simultaneous requests          *)
(* interleave between any two of their steps: the test of the global, the  *)
(* constructor call, the assignment to the global, and the read of the     *)
(* global that is returned.  An instance is the number of the constructor  *)
(* call that made it; 0 stands for None.                                   *)
(***************************************************************************)
Accessors ==
    {"get_scorer", "get_classifier", "get_preprocessor",
     "get_suggestion_engine", "get_csv_parser"}

Threads == {"t1", "t2"}

\* How many accessor calls one request thread makes.
MaxThreadCalls == 2

\* A thread: the accessor it is in, its position there, the instance its
\* constructor call produced, and, inside MLClassifier.__init__, the accessor
\* whose constructor called get_preprocessor.
ThreadAt(accessor, pc, made, outer) ==
    [accessor |-> accessor, pc |-> pc, made |-> made, outer |-> outer]

IdleThread == ThreadAt("none", "idle", 0, "none")

\* A request thread calls an accessor.
CallAccessor(t) ==
    /\ sn_thread[t].pc = "idle"
    /\ sn_calls[t] < MaxThreadCalls
    /\ \E a \in Accessors :
          sn_thread' = [sn_thread EXCEPT ![t] = ThreadAt(a, "test", 0, "none")]
    /\ sn_calls' = [sn_calls EXCEPT ![t] = @ + 1]
    /\ UNCHANGED <<sn_instance, sn_made, sn_received>>
    /\ UNCHANGED notSingletonVars

\* if _instance is None:
TestInstance(t) ==
    /\ sn_thread[t].pc = "test"
    /\ sn_thread' = [sn_thread EXCEPT ![t].pc =
                        IF sn_instance[sn_thread[t].accessor] = 0
                            THEN (IF sn_thread[t].accessor = "get_classifier"
                                      THEN "init" ELSE "construct")
                            ELSE "return"]
    /\ UNCHANGED <<sn_instance, sn_made, sn_received, sn_calls>>
    /\ UNCHANGED notSingletonVars

\* MLClassifier.__init__: self.preprocessor = get_preprocessor()
InitCallsGetPreprocessor(t) ==
    /\ sn_thread[t].pc = "init"
    /\ sn_thread' = [sn_thread EXCEPT ![t] =
                        ThreadAt("get_preprocessor", "test", 0, sn_thread[t].accessor)]
    /\ UNCHANGED <<sn_instance, sn_made, sn_received, sn_calls>>
    /\ UNCHANGED notSingletonVars

\* The constructor call returns a new instance.
ConstructInstance(t) ==
    /\ sn_thread[t].pc = "construct"
    /\ sn_made' = [sn_made EXCEPT ![sn_thread[t].accessor] = @ + 1]
    /\ sn_thread' = [sn_thread EXCEPT ![t].pc = "store",
                                      ![t].made = sn_made[sn_thread[t].accessor] + 1]
    /\ UNCHANGED <<sn_instance, sn_received, sn_calls>>
    /\ UNCHANGED notSingletonVars

\* _instance = <the new instance>
StoreInstance(t) ==
    /\ sn_thread[t].pc = "store"
    /\ sn_instance' = [sn_instance EXCEPT ![sn_thread[t].accessor] = sn_thread[t].made]
    /\ sn_thread' = [sn_thread EXCEPT ![t].pc = "return"]
    /\ UNCHANGED <<sn_made, sn_received, sn_calls>>
    /\ UNCHANGED notSingletonVars

\* return _instance: the caller receives what the global holds now.  A
\* get_preprocessor called from MLClassifier.__init__ returns into the
\* constructor, which then completes.
ReturnInstance(t) ==
    /\ sn_thread[t].pc = "return"
    /\ sn_received' = [sn_received EXCEPT ![sn_thread[t].accessor] =
                          @ \cup {sn_instance[sn_thread[t].accessor]}]
    /\ sn_thread' = [sn_thread EXCEPT ![t] =
                        IF sn_thread[t].outer = "none" THEN IdleThread
                        ELSE ThreadAt(sn_thread[t].outer, "construct", 0, "none")]
    /\ UNCHANGED <<sn_instance, sn_made, sn_calls>>
    /\ UNCHANGED notSingletonVars

SingletonNext ==
    \E t \in Threads :
        \/ CallAccessor(t)
        \/ TestInstance(t)
        \/ InitCallsGetPreprocessor(t)
        \/ ConstructInstance(t)
        \/ StoreInstance(t)
        \/ ReturnInstance(t)

(***************************************************************************)
(* Claim about the accessors, checked under SpecSingleton.                 *)
(***************************************************************************)
\* C30 (as claimed): for each accessor at most one instance is ever
\* constructed, and every caller receives that same instance, under any
\* interleaving of concurrent first calls.
C30_OneInstance ==
    \A a \in Accessors :
        /\ sn_made[a] <= 1
        /\ Cardinality(sn_received[a]) <= 1

(***************************************************************************)
(* Specifications: one per component.  Each starts from the state after    *)
(* construction; the components it does not exercise stay at rest.         *)
(***************************************************************************)

\* The arguments held by a component that is never called.
ScorerArgsAtRest ==
    [task_hours |-> 0, idle_hours |-> 0, social_media_hours |-> 0,
     break_frequency |-> 0, tasks_completed |-> 0]

SuggestionArgsAtRest ==
    [task_hours |-> 0, idle_hours |-> 0, social_media_usage |-> 0,
     break_frequency |-> 0, tasks_completed |-> 0, score |-> 0,
     max_suggestions |-> 5]

\* ProductivityScorer.__init__, and the arguments of the first call.
ScorerInit ==
    /\ sc_args \in ScorerArgs
    /\ sc_result = None
    /\ sc_prev = <<>>
    /\ sc_pc = "idle"
    /\ sg_rules = CreateRules
    /\ sg_args = SuggestionArgsAtRest
    /\ sg_out = <<>>
    /\ sg_returned = <<>>
    /\ cl_model = NoModel
    /\ cl_model_type = "random_forest"
    /\ cl_is_trained = FALSE
    /\ cl_training_accuracy = 0
    /\ cl_train_returned = FALSE
    /\ pp_scaler = NewScaler
    /\ pp_is_fitted = FALSE
    /\ fs_model = MissingFile
    /\ fs_scaler = MissingFile
    /\ ml_last = NoCall
    /\ ml_object = "classifier"
    /\ tr_pc = "start"
    /\ tr_data = <<>>
    /\ tr_scored = <<>>
    /\ tr_call = NoScriptCall
    /\ tr_fit = NoFit
    /\ tr_saved = MissingFile
    /\ tr_error = "none"
    /\ inf_last = <<>>
    /\ rq = [h \in Handlers |-> IdleHandler]
    /\ sn_instance = [a \in Accessors |-> 0]
    /\ sn_made = [a \in Accessors |-> 0]
    /\ sn_received = [a \in Accessors |-> {}]
    /\ sn_thread = [t \in Threads |-> IdleThread]
    /\ sn_calls = [t \in Threads |-> 0]
    /\ db_table = <<>>
    /\ db_memory = [u \in Users |-> <<>>]
    /\ db_clock = 0
    /\ db_live = [u \in Users |-> {}]
    /\ db_last = NoDbCall
    /\ cd_frame = <<>>
    /\ cd_out = <<>>

\* SuggestionEngine.__init__, and the arguments of the calls to come.
SuggestInit ==
    /\ sg_rules = CreateRules
    /\ sg_args \in SuggestionArgs
    /\ sg_out = <<>>
    /\ sg_returned = <<>>
    /\ sc_args = ScorerArgsAtRest
    /\ sc_result = None
    /\ sc_prev = <<>>
    /\ sc_pc = "idle"
    /\ cl_model = NoModel
    /\ cl_model_type = "random_forest"
    /\ cl_is_trained = FALSE
    /\ cl_training_accuracy = 0
    /\ cl_train_returned = FALSE
    /\ pp_scaler = NewScaler
    /\ pp_is_fitted = FALSE
    /\ fs_model = MissingFile
    /\ fs_scaler = MissingFile
    /\ ml_last = NoCall
    /\ ml_object = "classifier"
    /\ tr_pc = "start"
    /\ tr_data = <<>>
    /\ tr_scored = <<>>
    /\ tr_call = NoScriptCall
    /\ tr_fit = NoFit
    /\ tr_saved = MissingFile
    /\ tr_error = "none"
    /\ inf_last = <<>>
    /\ rq = [h \in Handlers |-> IdleHandler]
    /\ sn_instance = [a \in Accessors |-> 0]
    /\ sn_made = [a \in Accessors |-> 0]
    /\ sn_received = [a \in Accessors |-> {}]
    /\ sn_thread = [t \in Threads |-> IdleThread]
    /\ sn_calls = [t \in Threads |-> 0]
    /\ db_table = <<>>
    /\ db_memory = [u \in Users |-> <<>>]
    /\ db_clock = 0
    /\ db_live = [u \in Users |-> {}]
    /\ db_last = NoDbCall
    /\ cd_frame = <<>>
    /\ cd_out = <<>>

\* The first process: MLClassifier(model_type) and DataPreprocessor() are
\* constructed on the files at model_path and scaler_path.  The file of the
\* object under study is any of the initial files; the other object has no
\* file and the default model_type.
MlInit ==
    /\ ml_object \in {"classifier", "preprocessor"}
    /\ fs_model \in IF ml_object = "classifier" THEN InitialModelFiles
                    ELSE {MissingFile}
    /\ fs_scaler \in IF ml_object = "preprocessor" THEN InitialScalerFiles
                     ELSE {MissingFile}
    /\ \E model_type \in IF ml_object = "classifier" THEN SupportedModelTypes
                          ELSE {"random_forest"} :
          LET c == TryLoadModel(model_type, fs_model)
          IN  /\ cl_model = c.model
              /\ cl_model_type = c.model_type
              /\ cl_is_trained = c.is_trained
              /\ cl_training_accuracy = c.training_accuracy
    /\ pp_scaler = TryLoadScaler(fs_scaler).scaler
    /\ pp_is_fitted = TryLoadScaler(fs_scaler).is_fitted
    /\ cl_train_returned = FALSE
    /\ ml_last = Call("__init__", "none")
    /\ sc_args = ScorerArgsAtRest
    /\ sc_result = None
    /\ sc_prev = <<>>
    /\ sc_pc = "idle"
    /\ sg_rules = CreateRules
    /\ sg_args = SuggestionArgsAtRest
    /\ sg_out = <<>>
    /\ sg_returned = <<>>
    /\ tr_pc = "start"
    /\ tr_data = <<>>
    /\ tr_scored = <<>>
    /\ tr_call = NoScriptCall
    /\ tr_fit = NoFit
    /\ tr_saved = MissingFile
    /\ tr_error = "none"
    /\ inf_last = <<>>
    /\ rq = [h \in Handlers |-> IdleHandler]
    /\ sn_instance = [a \in Accessors |-> 0]
    /\ sn_made = [a \in Accessors |-> 0]
    /\ sn_received = [a \in Accessors |-> {}]
    /\ sn_thread = [t \in Threads |-> IdleThread]
    /\ sn_calls = [t \in Threads |-> 0]
    /\ db_table = <<>>
    /\ db_memory = [u \in Users |-> <<>>]
    /\ db_clock = 0
    /\ db_live = [u \in Users |-> {}]
    /\ db_last = NoDbCall
    /\ cd_frame = <<>>
    /\ cd_out = <<>>

\* The training script starts: nothing is read yet, no classifier is
\* constructed, and the file at settings.model_path is any of the initial
\* files.
TrainingInit ==
    /\ tr_pc = "start"
    /\ tr_data = <<>>
    /\ tr_scored = <<>>
    /\ tr_call = NoScriptCall
    /\ tr_fit = NoFit
    /\ tr_saved = MissingFile
    /\ tr_error = "none"
    /\ inf_last = <<>>
    /\ rq = [h \in Handlers |-> IdleHandler]
    /\ sn_instance = [a \in Accessors |-> 0]
    /\ sn_made = [a \in Accessors |-> 0]
    /\ sn_received = [a \in Accessors |-> {}]
    /\ sn_thread = [t \in Threads |-> IdleThread]
    /\ sn_calls = [t \in Threads |-> 0]
    /\ db_table = <<>>
    /\ db_memory = [u \in Users |-> <<>>]
    /\ db_clock = 0
    /\ db_live = [u \in Users |-> {}]
    /\ db_last = NoDbCall
    /\ cd_frame = <<>>
    /\ cd_out = <<>>
    /\ fs_model \in InitialModelFiles
    /\ fs_scaler = MissingFile
    /\ cl_model = NoModel
    /\ cl_model_type = "random_forest"
    /\ cl_is_trained = FALSE
    /\ cl_training_accuracy = 0
    /\ cl_train_returned = FALSE
    /\ pp_scaler = NewScaler
    /\ pp_is_fitted = FALSE
    /\ ml_last = NoCall
    /\ ml_object = "classifier"
    /\ sc_args = ScorerArgsAtRest
    /\ sc_result = None
    /\ sc_prev = <<>>
    /\ sc_pc = "idle"
    /\ sg_rules = CreateRules
    /\ sg_args = SuggestionArgsAtRest
    /\ sg_out = <<>>
    /\ sg_returned = <<>>

\* The serving process after start-up: get_preprocessor() and
\* get_classifier() have constructed their singletons from whatever files
\* were at scaler_path and model_path, and no call has been made.
InferenceInit ==
    /\ fs_model \in InitialModelFiles
    /\ fs_scaler \in InitialScalerFiles
    /\ cl_model = TryLoadModel("random_forest", fs_model).model
    /\ cl_model_type = TryLoadModel("random_forest", fs_model).model_type
    /\ cl_is_trained = TryLoadModel("random_forest", fs_model).is_trained
    /\ cl_training_accuracy = TryLoadModel("random_forest", fs_model).training_accuracy
    /\ cl_train_returned = FALSE
    /\ pp_scaler = TryLoadScaler(fs_scaler).scaler
    /\ pp_is_fitted = TryLoadScaler(fs_scaler).is_fitted
    /\ ml_last = Call("__init__", "none")
    /\ ml_object = "classifier"
    /\ inf_last = <<>>
    /\ rq = [h \in Handlers |-> IdleHandler]
    /\ sn_instance = [a \in Accessors |-> 0]
    /\ sn_made = [a \in Accessors |-> 0]
    /\ sn_received = [a \in Accessors |-> {}]
    /\ sn_thread = [t \in Threads |-> IdleThread]
    /\ sn_calls = [t \in Threads |-> 0]
    /\ db_table = <<>>
    /\ db_memory = [u \in Users |-> <<>>]
    /\ db_clock = 0
    /\ db_live = [u \in Users |-> {}]
    /\ db_last = NoDbCall
    /\ cd_frame = <<>>
    /\ cd_out = <<>>
    /\ sc_args = ScorerArgsAtRest
    /\ sc_result = None
    /\ sc_prev = <<>>
    /\ sc_pc = "idle"
    /\ sg_rules = CreateRules
    /\ sg_args = SuggestionArgsAtRest
    /\ sg_out = <<>>
    /\ sg_returned = <<>>
    /\ tr_pc = "start"
    /\ tr_data = <<>>
    /\ tr_scored = <<>>
    /\ tr_call = NoScriptCall
    /\ tr_fit = NoFit
    /\ tr_saved = MissingFile
    /\ tr_error = "none"

\* The serving process when the first request arrives: the singletons are
\* constructed as in InferenceInit and every handler is idle.
RequestInit ==
    /\ fs_model \in InitialModelFiles
    /\ fs_scaler \in InitialScalerFiles
    /\ cl_model = TryLoadModel("random_forest", fs_model).model
    /\ cl_model_type = TryLoadModel("random_forest", fs_model).model_type
    /\ cl_is_trained = TryLoadModel("random_forest", fs_model).is_trained
    /\ cl_training_accuracy = TryLoadModel("random_forest", fs_model).training_accuracy
    /\ cl_train_returned = FALSE
    /\ pp_scaler = TryLoadScaler(fs_scaler).scaler
    /\ pp_is_fitted = TryLoadScaler(fs_scaler).is_fitted
    /\ ml_last = Call("__init__", "none")
    /\ ml_object = "classifier"
    /\ inf_last = <<>>
    /\ rq = [h \in Handlers |-> IdleHandler]
    /\ sn_instance = [a \in Accessors |-> 0]
    /\ sn_made = [a \in Accessors |-> 0]
    /\ sn_received = [a \in Accessors |-> {}]
    /\ sn_thread = [t \in Threads |-> IdleThread]
    /\ sn_calls = [t \in Threads |-> 0]
    /\ db_table = <<>>
    /\ db_memory = [u \in Users |-> <<>>]
    /\ db_clock = 0
    /\ db_live = [u \in Users |-> {}]
    /\ db_last = NoDbCall
    /\ cd_frame = <<>>
    /\ cd_out = <<>>
    /\ sc_args = ScorerArgsAtRest
    /\ sc_result = None
    /\ sc_prev = <<>>
    /\ sc_pc = "idle"
    /\ sg_rules = CreateRules
    /\ sg_args = SuggestionArgsAtRest
    /\ sg_out = <<>>
    /\ sg_returned = <<>>
    /\ tr_pc = "start"
    /\ tr_data = <<>>
    /\ tr_scored = <<>>
    /\ tr_call = NoScriptCall
    /\ tr_fit = NoFit
    /\ tr_saved = MissingFile
    /\ tr_error = "none"

SpecScorer == ScorerInit /\ [][ScorerNext]_vars

SpecSuggest == SuggestInit /\ [][SuggestNext]_vars

SpecML == MlInit /\ [][MlNext]_vars

SpecTraining == TrainingInit /\ [][TrainingNext]_vars

SpecInference == InferenceInit /\ [][InferenceNext]_vars

SpecRequest == RequestInit /\ [][RequestNext]_vars

\* A batch arrives at clean_data.
CleaningInit ==
    /\ cd_frame \in CleanFrames
    /\ cd_out = <<>>
    /\ sc_args = ScorerArgsAtRest
    /\ sc_result = None
    /\ sc_prev = <<>>
    /\ sc_pc = "idle"
    /\ sg_rules = CreateRules
    /\ sg_args = SuggestionArgsAtRest
    /\ sg_out = <<>>
    /\ sg_returned = <<>>
    /\ cl_model = NoModel
    /\ cl_model_type = "random_forest"
    /\ cl_is_trained = FALSE
    /\ cl_training_accuracy = 0
    /\ cl_train_returned = FALSE
    /\ pp_scaler = NewScaler
    /\ pp_is_fitted = FALSE
    /\ fs_model = MissingFile
    /\ fs_scaler = MissingFile
    /\ ml_last = NoCall
    /\ ml_object = "classifier"
    /\ tr_pc = "start"
    /\ tr_data = <<>>
    /\ tr_scored = <<>>
    /\ tr_call = NoScriptCall
    /\ tr_fit = NoFit
    /\ tr_saved = MissingFile
    /\ tr_error = "none"
    /\ inf_last = <<>>
    /\ rq = [h \in Handlers |-> IdleHandler]
    /\ sn_instance = [a \in Accessors |-> 0]
    /\ sn_made = [a \in Accessors |-> 0]
    /\ sn_received = [a \in Accessors |-> {}]
    /\ sn_thread = [t \in Threads |-> IdleThread]
    /\ sn_calls = [t \in Threads |-> 0]
    /\ db_table = <<>>
    /\ db_memory = [u \in Users |-> <<>>]
    /\ db_clock = 0
    /\ db_live = [u \in Users |-> {}]
    /\ db_last = NoDbCall

SpecCleaning == CleaningInit /\ [][CleaningNext]_vars

\* The serving process starts: the table holds no record of these users and
\* _in_memory_history is empty.
DatabaseInit ==
    /\ db_table = <<>>
    /\ db_memory = [u \in Users |-> <<>>]
    /\ db_clock = 0
    /\ db_live = [u \in Users |-> {}]
    /\ db_last = NoDbCall
    /\ cd_frame = <<>>
    /\ cd_out = <<>>
    /\ sc_args = ScorerArgsAtRest
    /\ sc_result = None
    /\ sc_prev = <<>>
    /\ sc_pc = "idle"
    /\ sg_rules = CreateRules
    /\ sg_args = SuggestionArgsAtRest
    /\ sg_out = <<>>
    /\ sg_returned = <<>>
    /\ cl_model = NoModel
    /\ cl_model_type = "random_forest"
    /\ cl_is_trained = FALSE
    /\ cl_training_accuracy = 0
    /\ cl_train_returned = FALSE
    /\ pp_scaler = NewScaler
    /\ pp_is_fitted = FALSE
    /\ fs_model = MissingFile
    /\ fs_scaler = MissingFile
    /\ ml_last = NoCall
    /\ ml_object = "classifier"
    /\ tr_pc = "start"
    /\ tr_data = <<>>
    /\ tr_scored = <<>>
    /\ tr_call = NoScriptCall
    /\ tr_fit = NoFit
    /\ tr_saved = MissingFile
    /\ tr_error = "none"
    /\ inf_last = <<>>
    /\ rq = [h \in Handlers |-> IdleHandler]
    /\ sn_instance = [a \in Accessors |-> 0]
    /\ sn_made = [a \in Accessors |-> 0]
    /\ sn_received = [a \in Accessors |-> {}]
    /\ sn_thread = [t \in Threads |-> IdleThread]
    /\ sn_calls = [t \in Threads |-> 0]

SpecDatabase == DatabaseInit /\ [][DatabaseNext]_vars

\* The modules are imported: every singleton global is None and no request
\* thread has called an accessor.
SingletonInit ==
    /\ sn_instance = [a \in Accessors |-> 0]
    /\ sn_made = [a \in Accessors |-> 0]
    /\ sn_received = [a \in Accessors |-> {}]
    /\ sn_thread = [t \in Threads |-> IdleThread]
    /\ sn_calls = [t \in Threads |-> 0]
    /\ db_table = <<>>
    /\ db_memory = [u \in Users |-> <<>>]
    /\ db_clock = 0
    /\ db_live = [u \in Users |-> {}]
    /\ db_last = NoDbCall
    /\ cd_frame = <<>>
    /\ cd_out = <<>>
    /\ sc_args = ScorerArgsAtRest
    /\ sc_result = None
    /\ sc_prev = <<>>
    /\ sc_pc = "idle"
    /\ sg_rules = CreateRules
    /\ sg_args = SuggestionArgsAtRest
    /\ sg_out = <<>>
    /\ sg_returned = <<>>
    /\ cl_model = NoModel
    /\ cl_model_type = "random_forest"
    /\ cl_is_trained = FALSE
    /\ cl_training_accuracy = 0
    /\ cl_train_returned = FALSE
    /\ pp_scaler = NewScaler
    /\ pp_is_fitted = FALSE
    /\ fs_model = MissingFile
    /\ fs_scaler = MissingFile
    /\ ml_last = NoCall
    /\ ml_object = "classifier"
    /\ tr_pc = "start"
    /\ tr_data = <<>>
    /\ tr_scored = <<>>
    /\ tr_call = NoScriptCall
    /\ tr_fit = NoFit
    /\ tr_saved = MissingFile
    /\ tr_error = "none"
    /\ inf_last = <<>>
    /\ rq = [h \in Handlers |-> IdleHandler]

SpecSingleton == SingletonInit /\ [][SingletonNext]_vars

=============================================================================
